---------------------------- MODULE Spec2Model ----------------------------
(***************************************************************************)
(* A model of the page-context hook of the chat logger (hook.js, the file  *)
(* src/unnamed/part_001): the msgpack decoder, the two socket.io frame     *)
(* parsers, the Yukon action handler with its player registry, and the     *)
(* wrappers installed on the host's WebSocket and crypto operations; and   *)
(* of the content script that receives the hook's events (bootstrap.js,    *)
(* whose first part is src/unnamed/part_000): deduplication, the message   *)
(* store and the replay mode.                                              *)
(*                                                                         *)
(* JavaScript values are tagged records [t |-> <type>, v |-> <payload>].   *)
(* A string that the code hands to JSON.parse is represented by the value  *)
(* it denotes (or by a syntax error); the Date.now() stamps of the session *)
(* (timestamp, lastSeen) are not part of the session state modelled here.  *)
(* The two debug ring buffers are followed from the specifications that    *)
(* start them empty; the others leave them untracked.                      *)
(***************************************************************************)
EXTENDS Integers, Sequences, FiniteSets, TLC

VARIABLES
    mode,             \* "newcp" | "cpjourney": IS_CPJOURNEY, fixed at load
    documentTitle,    \* document.title of the host page
    playerRegistry,   \* Map: Number(id) -> entry
    ownPlayerId,      \* null | number
    ownUsername,      \* null | string
    currentRoomId,    \* null | raw args.room of the last join_room
    msgpackQueue,     \* _msgpackQueue: <<[buf, direction]>>
    msgpackScheduled, \* _msgpackScheduled
    lastOp,           \* the host operation in progress and what its wrapper did
    log,              \* one entry per frame that operation handled
    established,      \* the identity last established by an envelope
    malformedSeen,    \* number of malformed frames handled so far (capped)
    dec,              \* the state of one run of decodeMsgpack
    debug,            \* __cpChatLog_events and __cpChatLog_decrypted, or Untracked
    panel,            \* the content script: clock, recentHashes, message store, rows
    replay,           \* the content script's replay mode
    socket            \* the page's WebSocket: its 'message' listeners and onmessage

vars == <<mode, documentTitle, playerRegistry, ownPlayerId, ownUsername,
          currentRoomId, msgpackQueue, msgpackScheduled, lastOp, log,
          established, malformedSeen, dec, debug, panel, replay, socket>>

sessionVars == <<playerRegistry, ownPlayerId, ownUsername, currentRoomId>>

\* the state of the page-context hook
hookVars == <<mode, documentTitle, playerRegistry, ownPlayerId, ownUsername,
              currentRoomId, msgpackQueue, msgpackScheduled, lastOp, log,
              established, malformedSeen, dec, debug>>

---------------------------------------------------------------------------
(* JavaScript values and the conversions the code applies to them.         *)

JUndef   == [t |-> "undefined"]
JNull    == [t |-> "null"]
JNaN     == [t |-> "nan"]
JBool(b) == [t |-> "boolean", v |-> b]
JNum(n)  == [t |-> "number", v |-> n]
JStr(s)  == [t |-> "string", v |-> s]
JArr(s)  == [t |-> "array", v |-> s]
JObj(r)  == [t |-> "object", v |-> r]
JFunc(n) == [t |-> "function", name |-> n]
EmptyObj == JObj([k \in {} |-> JUndef])

\* typeof x
TypeOf(x) ==
    CASE x.t = "undefined" -> "undefined"
      [] x.t = "boolean"   -> "boolean"
      [] x.t \in {"number", "nan", "bignumber", "negbignumber", "float"} -> "number"
      [] x.t = "string"    -> "string"
      [] x.t = "function"  -> "function"
      [] OTHER             -> "object"

\* ToBoolean(x): what `!x`, `x ? a : b`, `x || y`, `x && y` test
Truthy(x) ==
    CASE x.t \in {"undefined", "null", "nan"} -> FALSE
      [] x.t = "boolean" -> x.v
      [] x.t = "number"  -> x.v # 0
      [] x.t = "string"  -> x.v # ""
      [] OTHER           -> TRUE

\* a || b
Or(a, b) == IF Truthy(a) THEN a ELSE b

\* o.k for an o that is neither null nor undefined
Prop(o, k) ==
    IF o.t = "object" /\ k \in DOMAIN o.v THEN o.v[k] ELSE JUndef

\* a ?? b
Nullish(x) == x.t \in {"undefined", "null"}

\* The decimal strings that occur as ids in the inputs of the model.
NumericStrings == {"0", "7", "9"}

StrToInt(s) == CASE s = "0" -> 0 [] s = "7" -> 7 [] s = "9" -> 9

\* Number(x), for the primitives that occur as ids and room numbers
Number(x) ==
    CASE x.t = "number"    -> x
      [] x.t = "null"      -> JNum(0)
      [] x.t = "boolean"   -> JNum(IF x.v THEN 1 ELSE 0)
      [] x.t = "string"    -> IF x.v = "" THEN JNum(0)
                              ELSE IF x.v \in NumericStrings THEN JNum(StrToInt(x.v))
                              ELSE JNaN
      [] x.t \in {"bignumber", "negbignumber", "float"} -> x
      [] OTHER             -> JNaN

\* String(x) and `${x}`, for primitives
Str(x) ==
    CASE x.t = "string"    -> x.v
      [] x.t = "number"    -> ToString(x.v)
      [] x.t = "nan"       -> "NaN"
      [] x.t = "null"      -> "null"
      [] x.t = "undefined" -> "undefined"
      [] x.t = "boolean"   -> IF x.v THEN "true" ELSE "false"
      [] x.t = "function"  -> "function " \o x.name \o "() { [native code] }"
      [] OTHER             -> "[object Object]"

---------------------------------------------------------------------------
(* The action lexicon.                                                     *)

EMOTE_NAMES ==
    <<"Happy", "Sad", "Grumpy", "Sick", "Surprised", "Silly", "Love",
      "Thinking", "Angry", "Laughing", "Winking", "Flower", "Coffee",
      "Pizza", "Coin", "Igloo", "Cake", "Snowflake", "Sun", "Moon", "Star",
      "Heart", "Skull", "Clover", "Diamond", "Game", "Music", "Light Bulb",
      "Ghost", "Pumpkin">>

JOKE_TEXTS ==
    <<"What do you call a sleeping dinosaur? A dino-snore!",
      "Why did the cookie go to the doctor? It felt crummy!",
      "What do you call a fish without eyes? A fsh!",
      "Why couldn't the bicycle stand up? It was two-tired!",
      "What do you get when you cross a snowman with a vampire? Frostbite!",
      "Why did the penguin cross the road? To go to the other slide!",
      "What do penguins eat for lunch? Ice-burgers!",
      "What's a penguin's favorite relative? Aunt Arctica!",
      "Why don't penguins fly? They can't afford plane tickets!",
      "What do penguins sing on a birthday? Freeze a jolly good fellow!">>

\* What a plain object inherits from Object.prototype, for the property
\* names that occur in the inputs of the model.
Inherited(k) ==
    CASE k = "constructor" -> JFunc("Object")
      [] k = "toString"    -> JFunc("toString")
      [] k = "__proto__"   -> EmptyObj
      [] OTHER             -> JUndef

\* a variant of Lookup that finds no entry for a key given as a string
LookupNumbersOnly(table, key) ==
    IF key.t = "number" /\ key.v \in 1..Len(table) THEN JStr(table[key.v]) ELSE JUndef

\* table[key] for an object literal whose own keys are 1..Len(table): the
\* own property, else the inherited one, else undefined
Lookup(table, key) ==
    LET n == Number(key) IN
    IF key.t \in {"number", "string"} /\ n.t = "number" /\ n.v \in 1..Len(table)
       /\ Str(key) = ToString(n.v)
    THEN JStr(table[n.v])
    ELSE IF key.t = "string" THEN Inherited(key.v) ELSE JUndef

CHAT_ACTIONS ==
    {"send_message", "send_safe", "send_emote", "send_joke", "send_tour",
     "give_tour", "send_stage"}

AUTH_ACTIONS == {"login", "token_login", "game_auth", "load_player"}

\* ROOM_NAMES[n]: undefined for an id the table does not hold
ROOM_NAMES(n) ==
    CASE n = 100 -> JStr("Town")
      [] n = 110 -> JStr("Coffee Shop")
      [] n = 111 -> JStr("Book Room")
      [] n = 120 -> JStr("Dance Club")
      [] n = 121 -> JStr("Lounge")
      [] n = 130 -> JStr("Gift Shop")
      [] n = 200 -> JStr("Ski Village")
      [] n = 210 -> JStr("Sport Shop")
      [] n = 220 -> JStr("Ski Lodge")
      [] n = 221 -> JStr("Lodge Attic")
      [] n = 230 -> JStr("Ski Hill")
      [] n = 300 -> JStr("Plaza")
      [] n = 310 -> JStr("Pet Shop")
      [] n = 320 -> JStr("Dojo")
      [] n = 321 -> JStr("Dojo Courtyard")
      [] n = 400 -> JStr("Beach")
      [] n = 800 -> JStr("Dock")
      [] n = 801 -> JStr("Snow Forts")
      [] n = 802 -> JStr("Ice Rink")
      [] n = 803 -> JStr("EPF HQ")
      [] n = 805 -> JStr("Iceberg")
      [] n = 806 -> JStr("Underground Pool")
      [] n = 807 -> JStr("Lighthouse")
      [] n = 809 -> JStr("Forest")
      [] n = 810 -> JStr("Cove")
      [] n = 900 -> JStr("Astro-Barrier")
      [] n = 901 -> JStr("Bean Counters")
      [] n = 902 -> JStr("Cattle Roundup")
      [] n = 903 -> JStr("Hydro Hopper")
      [] n = 904 -> JStr("Ice Fishing")
      [] n = 907 -> JStr("PSA Mission 1")
      [] n = 908 -> JStr("PSA Mission 2")
      [] n = 909 -> JStr("Thin Ice")
      [] n = 911 -> JStr("PSA Mission 3")
      [] n = 912 -> JStr("Catchin' Waves")
      [] n = 913 -> JStr("PSA Mission 4")
      [] n = 914 -> JStr("PSA Mission 5")
      [] n = 915 -> JStr("PSA Mission 6")
      [] n = 916 -> JStr("Puffle Submarine")
      [] n = 920 -> JStr("PSA Mission 7")
      [] n = 921 -> JStr("PSA Mission 8")
      [] n = 922 -> JStr("PSA Mission 9")
      [] n = 923 -> JStr("PSA Mission 10")
      [] n = 927 -> JStr("PSA Mission 11")
      [] n = 951 -> JStr("Sensei Battle")
      [] n = 998 -> JStr("Card-Jitsu")
      [] n = 999 -> JStr("Sled Racing")
      [] OTHER   -> JUndef

IglooIdOffset == 2000

\* a variant of resolveRoomName whose igloo range starts above the offset
resolveRoomNameAbove(id) ==
    IF Nullish(id) THEN JNull
    ELSE LET n == Number(id) IN
         IF n.t = "number" /\ n.v > IglooIdOffset
         THEN JStr("Igloo #" \o ToString(n.v - IglooIdOffset))
         ELSE Or(IF n.t = "number" THEN ROOM_NAMES(n.v) ELSE JUndef,
                 JStr("Room #" \o Str(n)))

resolveRoomName(id) ==
    IF Nullish(id) THEN JNull
    ELSE LET n == Number(id) IN
         IF n.t = "number" /\ n.v >= IglooIdOffset
         THEN JStr("Igloo #" \o ToString(n.v - IglooIdOffset))
         ELSE Or(IF n.t = "number" THEN ROOM_NAMES(n.v) ELSE JUndef,
                 JStr("Room #" \o Str(n)))

---------------------------------------------------------------------------
(* The player registry and the session state.  A session state is the      *)
(* record [reg, ownId, ownName, room] of the four module-level variables   *)
(* playerRegistry, ownPlayerId, ownUsername and currentRoomId.             *)

MapSet(reg, k, e) == [x \in (DOMAIN reg) \cup {k} |-> IF x = k THEN e ELSE reg[x]]

MapDelete(reg, k) == [x \in (DOMAIN reg) \ {k} |-> reg[x]]

registerPlayer(reg, p) ==
    IF ~Truthy(p) \/ Prop(p, "id") = JUndef THEN reg
    ELSE LET id       == Number(Prop(p, "id"))
             has      == id \in DOMAIN reg
             fallback == JStr("Penguin #" \o Str(Prop(p, "id")))
         IN  MapSet(reg, id,
                [username     |-> Or(Or(Or(Prop(p, "username"), Prop(p, "nickname")),
                                        IF has THEN reg[id].username ELSE JUndef),
                                     fallback),
                 nickname     |-> Or(Or(Or(Prop(p, "nickname"), Prop(p, "username")),
                                        IF has THEN reg[id].nickname ELSE JUndef),
                                     fallback),
                 roomsVisited |-> IF has THEN reg[id].roomsVisited ELSE {},
                 messageCount |-> IF has THEN reg[id].messageCount ELSE 0])

\* a variant of lookupUsername that prefers the username to the nickname
lookupUsernameFirst(reg, id) ==
    IF Nullish(id) THEN JNull
    ELSE LET k == Number(id) IN
         IF k \in DOMAIN reg THEN Or(reg[k].username, reg[k].nickname) ELSE JNull

lookupUsername(reg, id) ==
    IF Nullish(id) THEN JNull
    ELSE LET k == Number(id) IN
         IF k \in DOMAIN reg THEN Or(reg[k].nickname, reg[k].username) ELSE JNull

getCurrentRoom(st, title) ==
    IF st.room # JNull THEN resolveRoomName(st.room)
    ELSE Or(JStr(title), JStr("(unknown)"))

\* a variant of visitRoom that records the room whether or not one is set
visitRoomUnset(reg, k, room) ==
    IF k \in DOMAIN reg
    THEN [reg EXCEPT ![k].roomsVisited = @ \cup {room}]
    ELSE reg

\* entry.roomsVisited.add(currentRoomId), when the entry exists and a room is set
visitRoom(reg, k, room) ==
    IF k \in DOMAIN reg /\ room # JNull
    THEN [reg EXCEPT ![k].roomsVisited = @ \cup {room}]
    ELSE reg

\* args.users.forEach(u => ...) of join_room, from member i on: u.id of a
\* null member throws, and the members before it stay registered
RECURSIVE joinUsers(_, _, _, _)
joinUsers(reg, room, users, i) ==
    IF i > Len(users) THEN [reg |-> reg, threw |-> FALSE]
    ELSE LET u    == users[i]
             reg1 == registerPlayer(reg, u)
         IN  IF Nullish(u) THEN [reg |-> reg1, threw |-> TRUE]
             ELSE joinUsers(visitRoom(reg1, Number(Prop(u, "id")), room),
                            room, users, i + 1)

\* a variant of embeddedPlayer that looks at the root of args only
embeddedPlayerAtRoot(args) == args

\* const u = args.user || args
embeddedPlayer(args) == Or(Prop(args, "user"), args)

\* a variant of heuristicApplies that forgets the identity already set
heuristicAlways(st, users) == Len(users) = 1

\* a variant of heuristicApplies that takes the first member of any room
heuristicFirstMember(st, users) == st.ownId = JNull /\ Len(users) >= 1

\* if (ownPlayerId === null && args.users.length === 1)
heuristicApplies(st, users) == st.ownId = JNull /\ Len(users) = 1

\* a variant of joinedRoom that assigns args.room whether or not it is there
joinedRoomAlways(st, args) ==
    IF Prop(args, "room") # JUndef THEN Prop(args, "room") ELSE JNull

\* if (args.room !== undefined) currentRoomId = args.room
joinedRoom(st, args) ==
    IF Prop(args, "room") # JUndef THEN Prop(args, "room") ELSE st.room

updateRegistryFromMessage(st, action, args) ==
    CASE action \in AUTH_ACTIONS ->
           LET u == embeddedPlayer(args) IN
           IF Truthy(u) /\ Prop(u, "id") # JUndef
           THEN [st |-> [reg     |-> registerPlayer(st.reg, u),
                         ownId   |-> Number(Prop(u, "id")),
                         ownName |-> Or(Or(Prop(u, "username"), Prop(u, "nickname")), JNull),
                         room    |-> st.room],
                 threw |-> FALSE]
           ELSE [st |-> st, threw |-> FALSE]
      [] action = "join_room" ->
           LET room  == joinedRoom(st, args)
               users == Prop(args, "users")
           IN  IF users.t # "array"
               THEN [st |-> [st EXCEPT !.room = room], threw |-> FALSE]
               ELSE LET r == joinUsers(st.reg, room, users.v, 1) IN
                    IF r.threw
                    THEN [st |-> [st EXCEPT !.room = room, !.reg = r.reg], threw |-> TRUE]
                    ELSE IF heuristicApplies(st, users.v)
                    THEN [st |-> [reg     |-> r.reg,
                                  ownId   |-> Number(Prop(users.v[1], "id")),
                                  ownName |-> Or(Or(Prop(users.v[1], "username"),
                                                    Prop(users.v[1], "nickname")), JNull),
                                  room    |-> room],
                          threw |-> FALSE]
                    ELSE [st |-> [st EXCEPT !.room = room, !.reg = r.reg], threw |-> FALSE]
      [] action = "add_player" ->
           LET u    == embeddedPlayer(args)
               reg1 == registerPlayer(st.reg, u)
           IN  IF Truthy(u) /\ Prop(u, "id") # JUndef
               THEN [st |-> [st EXCEPT !.reg = visitRoom(reg1, Number(Prop(u, "id")), st.room)],
                     threw |-> FALSE]
               ELSE [st |-> [st EXCEPT !.reg = reg1], threw |-> FALSE]
      [] action = "remove_player" ->
           IF Prop(args, "user") # JUndef
           THEN [st |-> [st EXCEPT !.reg = MapDelete(st.reg, Number(Prop(args, "user")))],
                 threw |-> FALSE]
           ELSE [st |-> st, threw |-> FALSE]
      [] OTHER -> [st |-> st, threw |-> FALSE]

---------------------------------------------------------------------------
(* handleYukonAction: the state update, the player events and the chat     *)
(* event of one envelope.                                                  *)

\* `Penguin #${u.id}` fallbacks of the player events
playerDetail(u) ==
    LET fallback == JStr("Penguin #" \o Str(Prop(u, "id"))) IN
    [id       |-> Number(Prop(u, "id")),
     username |-> Or(Or(Prop(u, "username"), Prop(u, "nickname")), fallback),
     nickname |-> Or(Or(Prop(u, "nickname"), Prop(u, "username")), fallback)]

RECURSIVE joinEvents(_, _, _)
joinEvents(users, room, i) ==
    IF i > Len(users) THEN <<>>
    ELSE LET u == users[i] IN
         (IF Truthy(u) /\ Prop(u, "id") # JUndef
          THEN <<[type |-> "join", player |-> playerDetail(u), room |-> room]>>
          ELSE <<>>) \o joinEvents(users, room, i + 1)

\* the PLAYER_EVENT dispatches, made after the state update, on state st
playerEvents(st, action, args) ==
    CASE action = "join_room" /\ Prop(args, "users").t = "array" ->
           joinEvents(Prop(args, "users").v, st.room, 1)
      [] action = "add_player" ->
           LET u == embeddedPlayer(args) IN
           IF Truthy(u) /\ Prop(u, "id") # JUndef
           THEN <<[type |-> "add", player |-> playerDetail(u), room |-> st.room]>>
           ELSE <<>>
      [] action = "remove_player" /\ Prop(args, "user") # JUndef ->
           <<[type   |-> "remove",
              player |-> [id       |-> Number(Prop(args, "user")),
                          username |-> Or(lookupUsername(st.reg, Prop(args, "user")),
                                          JStr("Penguin #" \o Str(Prop(args, "user")))),
                          nickname |-> JNull],
              room   |-> st.room]>>
      [] OTHER -> <<>>

\* the text a chat action resolves to: a string, or null
messageText(action, args) ==
    LET msg == Prop(args, "message") IN
    CASE action = "send_message" ->
           IF Truthy(msg) THEN JStr(Str(msg)) ELSE JNull
      [] action = "send_safe" ->
           IF Truthy(msg) THEN JStr(Str(msg))
           ELSE IF Prop(args, "safe") # JUndef
                THEN JStr("[Safe #" \o Str(Prop(args, "safe")) \o "]")
                ELSE JNull
      [] action = "send_emote" ->
           LET emoteId == Prop(args, "emote") IN
           IF emoteId # JUndef /\ Truthy(Lookup(EMOTE_NAMES, emoteId))
           THEN JStr("[Emote: " \o Str(Lookup(EMOTE_NAMES, emoteId)) \o "]")
           ELSE JStr("[Emote #" \o (IF Nullish(emoteId) THEN "?" ELSE Str(emoteId)) \o "]")
      [] action = "send_joke" ->
           LET jokeId == Prop(args, "joke") IN
           IF jokeId # JUndef /\ Truthy(Lookup(JOKE_TEXTS, jokeId))
           THEN Lookup(JOKE_TEXTS, jokeId)
           ELSE JStr("[Joke #" \o (IF Nullish(jokeId) THEN "?" ELSE Str(jokeId)) \o "]")
      [] action \in {"send_tour", "give_tour"} ->
           IF Truthy(msg) THEN JStr(Str(msg)) ELSE JStr("[Tour]")
      [] action = "send_stage" ->
           IF Truthy(msg) THEN JStr(Str(msg)) ELSE JStr("[Stage]")
      [] OTHER -> JUndef

\* const penguinId = args.id !== undefined ? args.id : args.penguin_id
penguinIdOf(args) ==
    IF Prop(args, "id") # JUndef THEN Prop(args, "id") ELSE Prop(args, "penguin_id")

\* a variant of resolveSender that lets an outbound envelope name its sender
resolveSenderInline(st, args, direction) ==
    LET inline == Or(Prop(args, "username"), Prop(args, "name")) IN
    Or(Or(inline, IF direction = "out" THEN st.ownName
                  ELSE lookupUsername(st.reg, penguinIdOf(args))),
       JStr("(unknown)"))

resolveSender(st, args, direction) ==
    LET penguinId == penguinIdOf(args)
        inline    == Or(Prop(args, "username"), Prop(args, "name"))
    IN  IF direction = "out"
        THEN Or(Or(st.ownName, inline),
                IF st.ownId # JNull THEN JStr("Penguin #" \o Str(st.ownId))
                ELSE JStr("(you)"))
        ELSE Or(Or(IF penguinId # JUndef THEN lookupUsername(st.reg, penguinId) ELSE JNull,
                   inline),
                IF penguinId # JUndef THEN JStr("Penguin #" \o Str(penguinId))
                ELSE JStr("(unknown)"))

\* a variant of senderIdOf that converts ownPlayerId as it converts penguinId
senderIdOfNumber(st, args) ==
    IF penguinIdOf(args) # JUndef THEN Number(penguinIdOf(args)) ELSE Number(st.ownId)

\* const senderId = penguinId !== undefined ? Number(penguinId) : ownPlayerId
senderIdOf(st, args) ==
    IF penguinIdOf(args) # JUndef THEN Number(penguinIdOf(args)) ELSE st.ownId

\* a variant of countMessage that counts the message for every player
countMessageEvery(reg, senderId) ==
    IF ~Nullish(senderId) /\ Number(senderId) \in DOMAIN reg
    THEN [k \in DOMAIN reg |-> [reg[k] EXCEPT !.messageCount = @ + 1]]
    ELSE reg

\* senderEntry.messageCount = (senderEntry.messageCount || 0) + 1
countMessage(reg, senderId) ==
    IF ~Nullish(senderId) /\ Number(senderId) \in DOMAIN reg
    THEN [reg EXCEPT ![Number(senderId)].messageCount = @ + 1]
    ELSE reg

chatEvent(st, action, args, direction, title) ==
    LET rawRoom  == IF Prop(args, "room") # JUndef THEN Prop(args, "room")
                    ELSE Prop(args, "room_id")
        senderId == senderIdOf(st, args)
    IN  [username  |-> resolveSender(st, args, direction),
         message   |-> messageText(action, args),
         room      |-> IF rawRoom # JUndef THEN resolveRoomName(rawRoom)
                       ELSE Or(getCurrentRoom(st, title), JStr("(unknown)")),
         eventName |-> action,
         direction |-> direction,
         playerId  |-> IF ~Nullish(senderId) THEN Number(senderId) ELSE JNull]

\* handleYukonAction after its call of updateRegistryFromMessage, which left
\* upd: the player events, the classification, the text, and the dispatch
afterUpdate(upd, action, args, direction, title) ==
    IF upd.threw
    THEN [st |-> upd.st, chat |-> <<>>, players |-> <<>>, threw |-> TRUE]
    ELSE IF action \notin CHAT_ACTIONS \/ ~Truthy(messageText(action, args))
    THEN [st |-> upd.st, chat |-> <<>>, players |-> playerEvents(upd.st, action, args),
          threw |-> FALSE]
    ELSE [st      |-> [upd.st EXCEPT !.reg = countMessage(upd.st.reg,
                                                   senderIdOf(upd.st, args))],
          chat    |-> <<chatEvent(upd.st, action, args, direction, title)>>,
          players |-> playerEvents(upd.st, action, args),
          threw   |-> FALSE]

\* a variant of afterUpdate without `if (!messageText) return`
afterUpdateAnyText(upd, action, args, direction, title) ==
    IF upd.threw
    THEN [st |-> upd.st, chat |-> <<>>, players |-> <<>>, threw |-> TRUE]
    ELSE IF action \notin CHAT_ACTIONS
    THEN [st |-> upd.st, chat |-> <<>>, players |-> playerEvents(upd.st, action, args),
          threw |-> FALSE]
    ELSE [st      |-> upd.st,
          chat    |-> <<chatEvent(upd.st, action, args, direction, title)>>,
          players |-> <<>>,
          threw   |-> FALSE]

\* a variant of handleYukonAction without `if (!messageText) return`
handleYukonActionAnyText(st, action, args, direction, title) ==
    afterUpdateAnyText(updateRegistryFromMessage(st, action, args), action, args,
                       direction, title)

\* The whole handler on session state st: the state it leaves, the chat
\* events and player events it dispatches, and whether it threw.
handleYukonAction(st, action, args, direction, title) ==
    afterUpdate(updateRegistryFromMessage(st, action, args), action, args, direction,
                title)

---------------------------------------------------------------------------
(* decodeMsgpack.  One run of the decoder is the record                    *)
(*   [buf, pos, depth, stack, status, result]:                             *)
(* buf the bytes, pos and depth the decoder's variables, stack the         *)
(* readMap/readArr calls in progress (innermost last), status "run" while  *)
(* read() calls remain, "done" when the outermost read() has returned and  *)
(* "fail" when a `throw 0` reached the catch.  ReadStep is one call of     *)
(* read(): the tag byte, the scalar or the header that follows it, and     *)
(* the return of every collection that this value completes.               *)

MAX_DEPTH == 10

MAX_COLLECTION == 1000

\* A length of 2^31 or more: larger than every buffer, held without overflow.
Huge == 2147483646 + 1

\* TextDecoder.decode of one byte of ASCII text.  A byte that is not printable
\* ASCII is outside the inputs of the model (and so is the backquote, which
\* a TLA+ string cannot hold): it is written "?", as U+FFFD would be.
Char(b) ==
    CASE b = 32 -> " " [] b = 33 -> "!" [] b = 34 -> "\"" [] b = 35 -> "#"
      [] b = 36 -> "$" [] b = 37 -> "%" [] b = 38 -> "&" [] b = 39 -> "'"
      [] b = 40 -> "(" [] b = 41 -> ")" [] b = 42 -> "*" [] b = 43 -> "+"
      [] b = 44 -> "," [] b = 45 -> "-" [] b = 46 -> "." [] b = 47 -> "/"
      [] b = 48 -> "0" [] b = 49 -> "1" [] b = 50 -> "2" [] b = 51 -> "3"
      [] b = 52 -> "4" [] b = 53 -> "5" [] b = 54 -> "6" [] b = 55 -> "7"
      [] b = 56 -> "8" [] b = 57 -> "9" [] b = 58 -> ":" [] b = 59 -> ";"
      [] b = 60 -> "<" [] b = 61 -> "=" [] b = 62 -> ">" [] b = 63 -> "?"
      [] b = 64 -> "@" [] b = 65 -> "A" [] b = 66 -> "B" [] b = 67 -> "C"
      [] b = 68 -> "D" [] b = 69 -> "E" [] b = 70 -> "F" [] b = 71 -> "G"
      [] b = 72 -> "H" [] b = 73 -> "I" [] b = 74 -> "J" [] b = 75 -> "K"
      [] b = 76 -> "L" [] b = 77 -> "M" [] b = 78 -> "N" [] b = 79 -> "O"
      [] b = 80 -> "P" [] b = 81 -> "Q" [] b = 82 -> "R" [] b = 83 -> "S"
      [] b = 84 -> "T" [] b = 85 -> "U" [] b = 86 -> "V" [] b = 87 -> "W"
      [] b = 88 -> "X" [] b = 89 -> "Y" [] b = 90 -> "Z" [] b = 91 -> "["
      [] b = 92 -> "\\" [] b = 93 -> "]" [] b = 94 -> "^" [] b = 95 -> "_"
      [] b = 97 -> "a" [] b = 98 -> "b" [] b = 99 -> "c"
      [] b = 100 -> "d" [] b = 101 -> "e" [] b = 102 -> "f" [] b = 103 -> "g"
      [] b = 104 -> "h" [] b = 105 -> "i" [] b = 106 -> "j" [] b = 107 -> "k"
      [] b = 108 -> "l" [] b = 109 -> "m" [] b = 110 -> "n" [] b = 111 -> "o"
      [] b = 112 -> "p" [] b = 113 -> "q" [] b = 114 -> "r" [] b = 115 -> "s"
      [] b = 116 -> "t" [] b = 117 -> "u" [] b = 118 -> "v" [] b = 119 -> "w"
      [] b = 120 -> "x" [] b = 121 -> "y" [] b = 122 -> "z" [] b = 123 -> "{"
      [] b = 124 -> "|" [] b = 125 -> "}" [] b = 126 -> "~"
      [] OTHER -> "?"

RECURSIVE TextDecode(_)
TextDecode(bytes) ==
    IF bytes = <<>> THEN "" ELSE Char(Head(bytes)) \o TextDecode(Tail(bytes))

\* function check(n) { if (pos + n > len) throw 0; }: TRUE when it passes
\* a variant of check that finds room for every read
checkNothing(d, n) == TRUE

check(d, n) == n <= Len(d.buf) - d.pos

\* the unsigned big-endian number in the k bytes at 0-based offset p
RECURSIVE BigEndian(_, _, _)
BigEndian(buf, p, k) ==
    IF k = 0 THEN 0 ELSE BigEndian(buf, p, k - 1) * 256 + buf[p + k]

\* view.getUint8(p) and its like read k bytes inside the buffer, or throw a
\* RangeError
inView(d, p, k) == p + k <= Len(d.buf)

\* u8(), u16(), u32() at offset p, as a length or count: [ok, n, pos]
UInt(d, p, k) ==
    IF ~check([d EXCEPT !.pos = p], k) \/ ~inView(d, p, k)
    THEN [ok |-> FALSE, n |-> 0, pos |-> p]
    ELSE [ok  |-> TRUE,
          n   |-> IF k = 4 /\ d.buf[p + 1] >= 128 THEN Huge ELSE BigEndian(d.buf, p, k),
          pos |-> p + k]

\* i8(), i16(), i32(): two's complement of the k bytes at p
SInt(buf, p, k) ==
    IF buf[p + 1] < 128 THEN BigEndian(buf, p, k)
    ELSE -BigEndian([i \in 1..Len(buf) |-> 255 - buf[i]], p, k) - 1

\* hi * 0x100000000 + lo of the 8 bytes at p, as a double: a number below
\* 2^31 is a JNum; a larger one is held in limbs of 16, 24 and 24 bits and,
\* from 2^53 on, rounded to 53 significant bits (ties to even)
RECURSIVE BitLen(_)
BitLen(n) == IF n = 0 THEN 0 ELSE 1 + BitLen(n \div 2)

RECURSIVE Pow2(_)
Pow2(k) == IF k = 0 THEN 1 ELSE 2 * Pow2(k - 1)

BigNum(top, mid, lo) ==
    IF top = 0 /\ mid < 128 THEN JNum(mid * 16777216 + lo)
    ELSE [t |-> "bignumber", v |-> <<top, mid, lo>>]

RoundToDouble(top, mid, lo) ==
    IF top < 32 THEN BigNum(top, mid, lo)
    ELSE LET ulp  == Pow2(BitLen(top) - 5)
             r    == lo % ulp
             down == lo - r
             up   == (2 * r > ulp) \/ (2 * r = ulp /\ (down \div ulp) % 2 = 1)
             lo1  == IF up THEN down + ulp ELSE down
             mid1 == IF lo1 = 16777216 THEN mid + 1 ELSE mid
             top1 == IF mid1 = 16777216 THEN top + 1 ELSE top
         IN  BigNum(top1, mid1 % 16777216, lo1 % 16777216)

UInt32Value(buf, p) ==
    BigNum(0, BigEndian(buf, p, 1), BigEndian(buf, p + 1, 3))

UInt64Value(buf, p) ==
    RoundToDouble(BigEndian(buf, p, 2), BigEndian(buf, p + 2, 3), BigEndian(buf, p + 5, 3))

\* obj[k] = v on a plain object: the key is converted to a string, and the
\* key "__proto__" reaches the prototype setter and creates no property
Assign(obj, k, v) ==
    IF Str(k) = "__proto__" THEN obj ELSE MapSet(obj, Str(k), v)

\* bytes.subarray(p, p + n), which stops at the end of the buffer
SubSeqAt(buf, p, n) ==
    [i \in 1..(IF n <= Len(buf) - p THEN n ELSE Len(buf) - p) |-> buf[p + i]]

\* What one read() finds at d.pos, before any nested read():
\*   [kind |-> "value", val, pos]  a scalar (or a skipped block) and the new pos
\*   [kind |-> "map" | "arr", n, pos]  a collection header declaring n entries
\*   [kind |-> "throw", pos]  a failed check
Token(d) ==
    LET buf == d.buf
        p   == d.pos + 1
        thr(q)      == [kind |-> "throw", pos |-> q]
        val(v, q)   == [kind |-> "value", val |-> v, pos |-> q]
        hdr(k, n, q) == [kind |-> k, n |-> n, pos |-> q]
        \* str(n) and skip(n) at offset q
        str(n, q)   == IF check([d EXCEPT !.pos = q], n)
                       THEN val(JStr(TextDecode(SubSeqAt(buf, q, n))), q + n)
                       ELSE thr(q)
        skip(n, q)  == IF check([d EXCEPT !.pos = q], n) THEN val(JNull, q + n) ELSE thr(q)
        lenThen(k, F(_, _)) == LET u == UInt(d, p, k) IN
                               IF u.ok THEN F(u.n, u.pos) ELSE thr(u.pos)
        skip1(n, q) == skip(IF n = Huge THEN Huge ELSE n + 1, q)
        arr(n, q)   == hdr("arr", n, q)
        map(n, q)   == hdr("map", n, q)
        fixed(k, F(_, _)) == IF check([d EXCEPT !.pos = p], k) /\ inView(d, p, k)
                             THEN val(F(buf, p), p + k)
                             ELSE thr(p)
        u8v(b, q)   == JNum(BigEndian(b, q, 1))
        u16v(b, q)  == JNum(BigEndian(b, q, 2))
        i8v(b, q)   == JNum(SInt(b, q, 1))
        i16v(b, q)  == JNum(SInt(b, q, 2))
        i32v(b, q)  == JNum(SInt(b, q, 4))
        f32v(b, q)  == [t |-> "float", v |-> SubSeqAt(b, q, 4)]
        f64v(b, q)  == [t |-> "float", v |-> SubSeqAt(b, q, 8)]
        zero(b, q)  == JNum(0)
    IN
    IF ~check(d, 1) \/ ~inView(d, d.pos, 1) THEN thr(d.pos)
    ELSE LET b == buf[d.pos + 1] IN
      CASE b <= 127                -> val(JNum(b), p)
        [] b \in 128..143          -> map(b - 128, p)
        [] b \in 144..159          -> arr(b - 144, p)
        [] b \in 160..191          -> str(b - 160, p)
        [] b >= 224                -> val(JNum(b - 256), p)
        [] b = 192                 -> val(JNull, p)
        [] b = 194                 -> val(JBool(FALSE), p)
        [] b = 195                 -> val(JBool(TRUE), p)
        [] b = 196                 -> lenThen(1, skip)
        [] b = 197                 -> lenThen(2, skip)
        [] b = 198                 -> lenThen(4, skip)
        [] b = 199                 -> lenThen(1, skip1)
        [] b = 200                 -> lenThen(2, skip1)
        [] b = 201                 -> lenThen(4, skip1)
        [] b = 202                 -> fixed(4, f32v)
        [] b = 203                 -> fixed(8, f64v)
        [] b = 204                 -> fixed(1, u8v)
        [] b = 205                 -> fixed(2, u16v)
        [] b = 206                 -> fixed(4, UInt32Value)
        [] b = 207                 -> fixed(8, UInt64Value)
        [] b = 208                 -> fixed(1, i8v)
        [] b = 209                 -> fixed(2, i16v)
        [] b = 210                 -> fixed(4, i32v)
        [] b = 211                 -> fixed(8, zero)
        [] b = 212                 -> skip(2, p)
        [] b = 213                 -> skip(3, p)
        [] b = 214                 -> skip(5, p)
        [] b = 215                 -> skip(9, p)
        [] b = 216                 -> skip(17, p)
        [] b = 217                 -> lenThen(1, str)
        [] b = 218                 -> lenThen(2, str)
        [] b = 219                 -> lenThen(4, str)
        [] b = 220                 -> lenThen(2, arr)
        [] b = 221                 -> lenThen(4, arr)
        [] b = 222                 -> lenThen(2, map)
        [] b = 223                 -> lenThen(4, map)
        [] OTHER                   -> val(JNull, p)


InitDecoder(buf) ==
    [buf |-> buf, pos |-> 0, depth |-> 0, stack |-> <<>>, status |-> "run",
     result |-> JNull]

\* no decode in progress
NoDecode == [InitDecoder(<<>>) EXCEPT !.status = "idle"]

\* read() returns v to its caller: the outermost caller ends the decode; a
\* readArr pushes it; a readMap takes it as the key, or assigns it to the
\* pending key.  A collection whose loop has run n times does depth-- and
\* returns in turn.
RECURSIVE Return(_, _)
Return(d, v) ==
    IF d.stack = <<>> THEN [d EXCEPT !.status = "done", !.result = v]
    ELSE LET top  == d.stack[Len(d.stack)]
             rest == SubSeq(d.stack, 1, Len(d.stack) - 1)
             done(w) == Return([d EXCEPT !.stack = rest, !.depth = d.depth - 1], w)
             keep(f) == [d EXCEPT !.stack = Append(rest, f)]
         IN  IF top.kind = "arr"
             THEN LET items == Append(top.items, v) IN
                  IF Len(items) = top.n THEN done(JArr(items))
                  ELSE keep([top EXCEPT !.items = items])
             ELSE IF ~top.haveKey
             THEN keep([top EXCEPT !.haveKey = TRUE, !.key = v])
             ELSE LET obj == Assign(top.obj, top.key, v) IN
                  IF top.i + 1 = top.n THEN done(JObj(obj))
                  ELSE keep([top EXCEPT !.obj = obj, !.i = top.i + 1, !.haveKey = FALSE])

\* a variant of Enter without the limits on entries and depth
EnterAny(d, kind, n) ==
    IF n = 0
    THEN Return(d, IF kind = "arr" THEN JArr(<<>>) ELSE EmptyObj)
    ELSE [d EXCEPT !.depth = d.depth + 1,
                   !.stack = Append(d.stack,
                       IF kind = "arr"
                       THEN [kind |-> "arr", n |-> n, items |-> <<>>]
                       ELSE [kind |-> "map", n |-> n, i |-> 0, obj |-> EmptyObj.v,
                             haveKey |-> FALSE, key |-> JUndef])]

\* readMap(n) / readArr(n) up to the first nested read()
Enter(d, kind, n) ==
    IF n > MAX_COLLECTION \/ d.depth + 1 > MAX_DEPTH
    THEN [d EXCEPT !.status = "fail", !.result = JNull]
    ELSE IF n = 0
    THEN Return(d, IF kind = "arr" THEN JArr(<<>>) ELSE EmptyObj)
    ELSE [d EXCEPT !.depth = d.depth + 1,
                   !.stack = Append(d.stack,
                       IF kind = "arr"
                       THEN [kind |-> "arr", n |-> n, items |-> <<>>]
                       ELSE [kind |-> "map", n |-> n, i |-> 0, obj |-> EmptyObj.v,
                             haveKey |-> FALSE, key |-> JUndef])]

\* a variant of ReadStep that leaves the position before a collection header
ReadStepPeek(d) ==
    LET tk == Token(d)
        d1 == [d EXCEPT !.pos = tk.pos]
    IN  CASE tk.kind = "throw" -> [d1 EXCEPT !.status = "fail", !.result = JNull]
          [] tk.kind = "value" -> Return(d1, tk.val)
          [] OTHER             -> Enter(d, tk.kind, tk.n)

ReadStep(d) ==
    LET tk == Token(d)
        d1 == [d EXCEPT !.pos = tk.pos]
    IN  CASE tk.kind = "throw" -> [d1 EXCEPT !.status = "fail", !.result = JNull]
          [] tk.kind = "value" -> Return(d1, tk.val)
          [] OTHER             -> Enter(d1, tk.kind, tk.n)

\* the calls of read() in turn, until the outermost returns or one throws
RECURSIVE RunDecoder(_)
RunDecoder(d) == IF d.status = "run" THEN RunDecoder(ReadStep(d)) ELSE d

\* try { return read(); } catch { return null; }
decodeMsgpack(buf) == RunDecoder(InitDecoder(buf)).result

---------------------------------------------------------------------------
(* The frame parsers and the two ingestion paths.  A JavaScript string     *)
(* that reaches JSON.parse is a record whose field json is the value the   *)
(* text denotes, or SyntaxError.  The result of handling a frame is        *)
(*   [st, chat, players, threw, calls]:                                    *)
(* the session state left, the events dispatched, whether an exception     *)
(* left the handler, and the calls of handleYukonAction made.              *)

SyntaxError == [t |-> "syntaxerror"]

\* try { return JSON.parse(str); } catch { return null; }
tryJSON(str) == IF str.json = SyntaxError THEN JNull ELSE str.json

Nothing(st) == [st |-> st, chat |-> <<>>, players |-> <<>>, threw |-> FALSE, calls |-> <<>>]

Called(r, action, args, direction) ==
    [st |-> r.st, chat |-> r.chat, players |-> r.players, threw |-> r.threw,
     calls |-> <<[action |-> action, args |-> args, direction |-> direction]>>]

handleYukonMessage(st, text, direction, title) ==
    LET parsed == tryJSON(text) IN
    IF ~Truthy(parsed) \/ TypeOf(Prop(parsed, "action")) # "string" THEN Nothing(st)
    ELSE LET action == Prop(parsed, "action").v
             args   == Or(Prop(parsed, "args"), EmptyObj)
         IN  Called(handleYukonAction(st, action, args, direction, title),
                    action, args, direction)

\* a variant of parseSocketIOTextFrame that does not look at the packet type
parseSocketIOTextFrameAnyType(frame) ==
    IF frame.t # "string" \/ frame.length < 3 THEN JNull
    ELSE IF frame.nsp = "nocomma" THEN JNull
    ELSE LET arr == tryJSON(frame) IN
         IF arr.t # "array" \/ Len(arr.v) < 1 \/ TypeOf(arr.v[1]) # "string" THEN JNull
         ELSE JObj([eventName |-> arr.v[1],
                    payload   |-> Or(IF Len(arr.v) >= 2 THEN arr.v[2] ELSE JUndef, EmptyObj)])

\* a variant of parseSocketIOTextFrame without the `|| {}` of the payload
parseSocketIOTextFrameAsIs(frame) ==
    IF frame.t # "string" \/ frame.length < 3 THEN JNull
    ELSE IF frame.c0 # "4" \/ frame.c1 # "2" THEN JNull
    ELSE IF frame.nsp = "nocomma" THEN JNull
    ELSE LET arr == tryJSON(frame) IN
         IF arr.t # "array" \/ Len(arr.v) < 1 \/ TypeOf(arr.v[1]) # "string" THEN JNull
         ELSE JObj([eventName |-> arr.v[1],
                    payload   |-> IF Len(arr.v) >= 2 THEN arr.v[2] ELSE JUndef])

\* A text frame is [t |-> "string", length, c0, c1, nsp, json]: its length,
\* its first two characters, whether a "/" follows them ("none"), with a
\* comma after it ("comma") or without one ("nocomma"), and what the text
\* from jsonStart on denotes.  The result is null or [eventName, payload].
parseSocketIOTextFrame(frame) ==
    IF frame.t # "string" \/ frame.length < 3 THEN JNull
    ELSE IF frame.c0 # "4" \/ frame.c1 # "2" THEN JNull
    ELSE IF frame.nsp = "nocomma" THEN JNull
    ELSE LET arr == tryJSON(frame) IN
         IF arr.t # "array" \/ Len(arr.v) < 1 \/ TypeOf(arr.v[1]) # "string" THEN JNull
         ELSE JObj([eventName |-> arr.v[1],
                    payload   |-> Or(IF Len(arr.v) >= 2 THEN arr.v[2] ELSE JUndef, EmptyObj)])

\* a variant of eventOfPacket that takes a packet of any type
eventOfPacketAnyType(packet) ==
    LET data == Prop(packet, "data") IN
    IF ~Truthy(packet) \/ TypeOf(packet) # "object" THEN JNull
    ELSE IF data.t # "array" \/ Len(data.v) < 2 THEN JNull
    ELSE IF TypeOf(data.v[1]) # "string" \/ ~Truthy(data.v[2])
            \/ TypeOf(data.v[2]) # "object" THEN JNull
    ELSE JObj([eventName |-> data.v[1], payload |-> data.v[2]])

\* the checks parseMsgpackSocketIOFrame makes of the decoded packet
eventOfPacket(packet) ==
    LET data == Prop(packet, "data") IN
    IF ~Truthy(packet) \/ TypeOf(packet) # "object" THEN JNull
    ELSE IF Prop(packet, "type") # JNum(2) THEN JNull
    ELSE IF data.t # "array" \/ Len(data.v) < 2 THEN JNull
    ELSE IF TypeOf(data.v[1]) # "string" \/ ~Truthy(data.v[2])
            \/ TypeOf(data.v[2]) # "object" THEN JNull
    ELSE JObj([eventName |-> data.v[1], payload |-> data.v[2]])

parseMsgpackSocketIOFrame(buf) == eventOfPacket(decodeMsgpack(buf))

\* processEvent of the stealth hook; processSocketIOEvent of the prototype
\* hook is the same function
processEvent(st, eventName, payload, direction, title) ==
    LET envelope == eventName = JStr("message") /\ Truthy(payload)
                      /\ TypeOf(Prop(payload, "action")) = "string"
        action   == IF envelope THEN Prop(payload, "action").v ELSE eventName.v
        args     == IF envelope THEN Or(Prop(payload, "args"), EmptyObj)
                    ELSE Or(payload, EmptyObj)
    IN  Called(handleYukonAction(st, action, args, direction, title),
               action, args, direction)

\* the text-frame branch of handleRawFrame, in both hooks
handleTextFrame(st, data, direction, title) ==
    LET parsed == parseSocketIOTextFrame(data) IN
    IF Truthy(parsed)
    THEN processEvent(st, Prop(parsed, "eventName"), Prop(parsed, "payload"),
                      direction, title)
    ELSE Nothing(st)

\* a variant of tryIgnore that lets the exception through
rethrow(r) == r

\* try { ... } catch { /* ignore */ } around the handling of a frame
tryIgnore(r) == [r EXCEPT !.threw = FALSE]

MaxFrameBytes == 8192

\* the binary branch of the stealth hook's handleRawFrame: TRUE when the
\* frame is pushed on _msgpackQueue
acceptsBinary(data) ==
    /\ data.t = "arraybuffer"
    /\ ~(Len(data.bytes) > MaxFrameBytes)

\* if (parsed) processEvent(parsed.eventName, parsed.payload, direction)
processParsed(st, parsed, direction, title) ==
    IF Truthy(parsed)
    THEN processEvent(st, Prop(parsed, "eventName"), Prop(parsed, "payload"),
                      direction, title)
    ELSE Nothing(st)

\* a variant of drainOne without the try/catch inside the loop
drainOneNoCatch(st, item, title) ==
    processParsed(st, parseMsgpackSocketIOFrame(item.buf), item.direction, title)

\* one iteration of the loop of drainMsgpackQueue, its try/catch included
drainOne(st, item, title) ==
    tryIgnore(processParsed(st, parseMsgpackSocketIOFrame(item.buf), item.direction,
                            title))

---------------------------------------------------------------------------
(* A reference msgpack encoder, restricted to maps, arrays, strings,       *)
(* integers, booleans and null, each in its shortest encoding.  It builds  *)
(* the binary frames the model receives.                                   *)

\* The strings of the model's frames, and their UTF-8 bytes.
Vocabulary ==
    {"type", "data", "nsp", "/", "message", "action",
     "args", "id", "penguin_id", "username", "nickname", "name",
     "user", "users", "room", "room_id", "emote", "joke",
     "safe", "login", "token_login", "game_auth", "load_player", "join_room",
     "add_player", "remove_player", "send_message", "send_safe", "send_emote", "send_joke",
     "send_tour", "give_tour", "send_stage", "ping", "sam", "bob",
     "Sammy", "Bobby", "hi", "yo", "a", "b",
     "__proto__", "inline", "2", ""}

Utf8(s) ==
    CASE s = "type" -> <<116, 121, 112, 101>>
      [] s = "data" -> <<100, 97, 116, 97>>
      [] s = "nsp" -> <<110, 115, 112>>
      [] s = "/" -> <<47>>
      [] s = "message" -> <<109, 101, 115, 115, 97, 103, 101>>
      [] s = "action" -> <<97, 99, 116, 105, 111, 110>>
      [] s = "args" -> <<97, 114, 103, 115>>
      [] s = "id" -> <<105, 100>>
      [] s = "penguin_id" -> <<112, 101, 110, 103, 117, 105, 110, 95, 105, 100>>
      [] s = "username" -> <<117, 115, 101, 114, 110, 97, 109, 101>>
      [] s = "nickname" -> <<110, 105, 99, 107, 110, 97, 109, 101>>
      [] s = "name" -> <<110, 97, 109, 101>>
      [] s = "user" -> <<117, 115, 101, 114>>
      [] s = "users" -> <<117, 115, 101, 114, 115>>
      [] s = "room" -> <<114, 111, 111, 109>>
      [] s = "room_id" -> <<114, 111, 111, 109, 95, 105, 100>>
      [] s = "emote" -> <<101, 109, 111, 116, 101>>
      [] s = "joke" -> <<106, 111, 107, 101>>
      [] s = "safe" -> <<115, 97, 102, 101>>
      [] s = "login" -> <<108, 111, 103, 105, 110>>
      [] s = "token_login" -> <<116, 111, 107, 101, 110, 95, 108, 111, 103, 105, 110>>
      [] s = "game_auth" -> <<103, 97, 109, 101, 95, 97, 117, 116, 104>>
      [] s = "load_player" -> <<108, 111, 97, 100, 95, 112, 108, 97, 121, 101, 114>>
      [] s = "join_room" -> <<106, 111, 105, 110, 95, 114, 111, 111, 109>>
      [] s = "add_player" -> <<97, 100, 100, 95, 112, 108, 97, 121, 101, 114>>
      [] s = "remove_player" -> <<114, 101, 109, 111, 118, 101, 95, 112, 108, 97, 121, 101, 114>>
      [] s = "send_message" -> <<115, 101, 110, 100, 95, 109, 101, 115, 115, 97, 103, 101>>
      [] s = "send_safe" -> <<115, 101, 110, 100, 95, 115, 97, 102, 101>>
      [] s = "send_emote" -> <<115, 101, 110, 100, 95, 101, 109, 111, 116, 101>>
      [] s = "send_joke" -> <<115, 101, 110, 100, 95, 106, 111, 107, 101>>
      [] s = "send_tour" -> <<115, 101, 110, 100, 95, 116, 111, 117, 114>>
      [] s = "give_tour" -> <<103, 105, 118, 101, 95, 116, 111, 117, 114>>
      [] s = "send_stage" -> <<115, 101, 110, 100, 95, 115, 116, 97, 103, 101>>
      [] s = "ping" -> <<112, 105, 110, 103>>
      [] s = "sam" -> <<115, 97, 109>>
      [] s = "bob" -> <<98, 111, 98>>
      [] s = "Sammy" -> <<83, 97, 109, 109, 121>>
      [] s = "Bobby" -> <<66, 111, 98, 98, 121>>
      [] s = "hi" -> <<104, 105>>
      [] s = "yo" -> <<121, 111>>
      [] s = "a" -> <<97>>
      [] s = "b" -> <<98>>
      [] s = "__proto__" -> <<95, 95, 112, 114, 111, 116, 111, 95, 95>>
      [] s = "inline" -> <<105, 110, 108, 105, 110, 101>>
      [] s = "2" -> <<50>>
      [] s = "" -> <<>>

\* the k bytes of the unsigned number n < 2^31, big-endian
RECURSIVE Bytes(_, _)
Bytes(n, k) == IF k = 0 THEN <<>> ELSE Append(Bytes(n \div 256, k - 1), n % 256)

\* a negative integer below -2^31, of magnitude top*2^48 + mid*2^24 + lo
JNegBig(top, mid, lo) == [t |-> "negbignumber", v |-> <<top, mid, lo>>]

\* the 8 bytes of 2^64 - m, for the magnitude m >= 1 in limbs
TwosComplement64(top, mid, lo) ==
    LET lo1  == IF lo = 0 THEN 16777215 ELSE lo - 1
        mid1 == IF lo # 0 THEN mid ELSE IF mid = 0 THEN 16777215 ELSE mid - 1
        top1 == IF lo # 0 \/ mid # 0 THEN top ELSE top - 1
    IN  Bytes(65535 - top1, 2) \o Bytes(16777215 - mid1, 3) \o Bytes(16777215 - lo1, 3)

EncodeInt(n) ==
    CASE n \in 0..127          -> <<n>>
      [] n \in -32..-1         -> <<256 + n>>
      [] n \in 128..255        -> <<204>> \o Bytes(n, 1)
      [] n \in 256..65535      -> <<205>> \o Bytes(n, 2)
      [] n > 65535             -> <<206>> \o Bytes(n, 4)
      [] n \in -128..-33       -> <<208>> \o Bytes(256 + n, 1)
      [] n \in -32768..-129    -> <<209>> \o Bytes(65536 + n, 2)
      [] OTHER                 -> <<210>> \o [i \in 1..4 |-> 255 - Bytes(-(n + 1), 4)[i]]

EncodeHeader(n, fix, max, b16) ==
    IF n <= max THEN <<fix + n>> ELSE <<b16>> \o Bytes(n, 2)

RECURSIVE Encode(_)
RECURSIVE EncodeAll(_)
RECURSIVE EncodeEntries(_, _)
Encode(x) ==
    CASE x.t = "null"    -> <<192>>
      [] x.t = "boolean" -> IF x.v THEN <<195>> ELSE <<194>>
      [] x.t = "number"  -> EncodeInt(x.v)
      [] x.t = "bignumber" ->
           IF x.v[1] = 0 /\ x.v[2] < 256
           THEN <<206>> \o Bytes(x.v[2], 1) \o Bytes(x.v[3], 3)
           ELSE <<207>> \o Bytes(x.v[1], 2) \o Bytes(x.v[2], 3) \o Bytes(x.v[3], 3)
      [] x.t = "negbignumber" -> <<211>> \o TwosComplement64(x.v[1], x.v[2], x.v[3])
      [] x.t = "string"  ->
           LET b == Utf8(x.v) IN
           (IF Len(b) <= 31 THEN <<160 + Len(b)>> ELSE <<217, Len(b)>>) \o b
      [] x.t = "array"   -> EncodeHeader(Len(x.v), 144, 15, 220) \o EncodeAll(x.v)
      [] x.t = "object"  ->
           EncodeHeader(Cardinality(DOMAIN x.v), 128, 15, 222)
             \o EncodeEntries(x.v, DOMAIN x.v)

EncodeAll(xs) == IF xs = <<>> THEN <<>> ELSE Encode(Head(xs)) \o EncodeAll(Tail(xs))

EncodeEntries(obj, keys) ==
    IF keys = {} THEN <<>>
    ELSE LET k == CHOOSE key \in keys : TRUE IN
         Encode(JStr(k)) \o Encode(obj[k]) \o EncodeEntries(obj, keys \ {k})

---------------------------------------------------------------------------
(* The wrappers installed on the host.                                     *)

\* `return _origSend.call(this, data)` and its like, which follow the
\* handling h of the frame: reached unless an exception left the wrapper
callOriginal(h, arg) ==
    IF h.threw
    THEN [origCalls |-> 0, origArgs |-> <<>>, returnsOriginal |-> FALSE, escaped |-> TRUE]
    ELSE [origCalls |-> 1, origArgs |-> <<arg>>, returnsOriginal |-> TRUE, escaped |-> FALSE]

\* bufferToString(buf) of a buffer of text
bufferToString(buf) == [t |-> "string", length |-> buf.length, json |-> buf.json]

\* try { const text = bufferToString(buf); if (text) handleYukonMessage(..) } catch {}
handlePlaintext(st, buf, direction, title) ==
    LET text == bufferToString(buf) IN
    IF text.length > 0 THEN tryIgnore(handleYukonMessage(st, text, direction, title))
    ELSE Nothing(st)

---------------------------------------------------------------------------
(* The state machine: one action per host operation the hook wraps, one    *)
(* for the timer callback that drains the msgpack queue, and the return    *)
(* to the host's event loop, by which the events dispatched have been      *)
(* consumed.                                                               *)

MaxCount     == 1    \* cap on a player's messageCount
MaxQueue     == 1    \* cap on the length of _msgpackQueue
MaxMalformed == 1    \* malformedSeen saturates here
MaxBatch     == 2    \* cap on the length of _msgpackQueue in SpecQueue

Session ==
    [reg |-> playerRegistry, ownId |-> ownPlayerId, ownName |-> ownUsername,
     room |-> currentRoomId]

SetSession(st) ==
    /\ playerRegistry' = st.reg
    /\ ownPlayerId'    = st.ownId
    /\ ownUsername'    = st.ownName
    /\ currentRoomId'  = st.room

WithinCount(st) == \A k \in DOMAIN st.reg : st.reg[k].messageCount <= MaxCount

NoIdentity == [set |-> FALSE]

\* The identity an envelope establishes, as the design states it: an
\* auth-class action that carries a player object with an id; or a join_room
\* that lists exactly one member while no identity is established.
Establishes(est, call) ==
    LET u     == embeddedPlayer(call.args)
        users == Prop(call.args, "users")
        named(p, by) ==
            [set  |-> TRUE, by |-> by,
             id   |-> Number(Prop(p, "id")),
             name |-> Or(Or(Prop(p, "username"), Prop(p, "nickname")), JNull)]
    IN  IF call.action \in AUTH_ACTIONS /\ Truthy(u) /\ Prop(u, "id") # JUndef
        THEN named(u, "auth")
        ELSE IF call.action = "join_room" /\ ~est.set /\ users.t = "array"
                /\ Len(users.v) = 1 /\ users.v[1].t = "object"
        THEN named(users.v[1], "heuristic")
        ELSE est

EstablishedAfter(est, calls) ==
    IF calls = <<>> THEN est ELSE Establishes(est, calls[1])

\* the record of one handled frame
Entry(frame, direction, pre, r, est) ==
    [frame |-> frame, direction |-> direction, calls |-> r.calls,
     pre |-> pre, post |-> r.st, chat |-> r.chat, players |-> r.players,
     est |-> est]

Idle == [op |-> "none"]

Saturate(n) == IF n > MaxMalformed THEN MaxMalformed ELSE n

\* The debug buffers.  Both are filled the same way: push, then shift once
\* when the length has passed the cap.
EVENTS_CAP    == 500    \* __cpChatLog_events
DECRYPTED_CAP == 200    \* __cpChatLog_decrypted
TEXT_CAP      == 400    \* text.slice(0, 400)

Untracked == [tracked |-> FALSE]

\* the content script before openDB() has resolved: db is null and nothing
\* listens for the events the hook dispatches
NoPanel == [loaded |-> FALSE]

\* the panel outside replay mode
NoReplay == [active |-> FALSE]

\* A callback of the 'message' event: the page's function fn itself (wrapper
\* 0), or the wrapper number n that the hook made around it.
PageFn(fn) == [fn |-> fn, wrapper |-> 0]

WrapperOf(fn, n) == [fn |-> fn, wrapper |-> n]

NoHandler == [fn |-> "", wrapper |-> 0]

\* The socket: listeners is its list of 'message' listeners and onmessage its
\* handler attribute, as the hooked page leaves them; plain and plainOn are
\* what the same calls of the page leave on a socket that is not hooked;
\* wrappers counts the wrappers made.
NewSocket ==
    [listeners |-> <<>>, onmessage |-> NoHandler, plain |-> <<>>, plainOn |-> NoHandler,
     wrappers |-> 0]

\* the socket on which the page has registered its one listener
OneListener ==
    [NewSocket EXCEPT !.listeners = <<WrapperOf("f", 1)>>, !.plain = <<PageFn("f")>>,
                      !.wrappers = 1]

\* the buffers at load; now stands for Date.now(), which the model advances
\* by one with every operation that records
EmptyBuffers == [tracked |-> TRUE, events |-> <<>>, decrypted |-> <<>>, now |-> 0]

\* a variant of pushCapped that gives up the entry pushed instead of the oldest
pushCappedKeepOldest(buffer, entry, cap) ==
    LET pushed == Append(buffer, entry)
    IN  IF Len(pushed) > cap THEN SubSeq(pushed, 1, Len(pushed) - 1) ELSE pushed

\* buffer.push(entry); if (buffer.length > cap) buffer.shift()
pushCapped(buffer, entry, cap) ==
    LET pushed == Append(buffer, entry)
    IN  IF Len(pushed) > cap THEN Tail(pushed) ELSE pushed

\* text.slice(0, 400): a text cut short no longer denotes its JSON value
slice400(text) ==
    IF text.length <= TEXT_CAP THEN text
    ELSE [text EXCEPT !.length = TEXT_CAP, !.json = SyntaxError]

\* the entries handleYukonMessage pushes for a frame: one for a non-empty
\* plaintext of the crypto hooks, none for a WebSocket frame
Plaintexts(frame, direction) ==
    IF frame.t = "buffer" /\ frame.length > 0
    THEN <<[dir |-> direction, text |-> slice400(bufferToString(frame))]>>
    ELSE <<>>

RECURSIVE pushEvents(_, _, _)
\* the entries the calls of handleYukonAction push, in the order of the calls
pushEvents(events, calls, ts) ==
    IF calls = <<>> THEN events
    ELSE pushEvents(pushCapped(events,
                               [ts |-> ts, event |-> Head(calls).action,
                                direction |-> Head(calls).direction],
                               EVENTS_CAP),
                    Tail(calls), ts)

RECURSIVE pushTexts(_, _)
pushTexts(decrypted, texts) ==
    IF texts = <<>> THEN decrypted
    ELSE pushTexts(pushCapped(decrypted, Head(texts), DECRYPTED_CAP), Tail(texts))

\* the buffers after an operation that handed texts to handleYukonMessage
\* and made calls of handleYukonAction
Recorded(d, texts, calls) ==
    IF ~d.tracked THEN d
    ELSE [tracked   |-> TRUE,
          events    |-> pushEvents(d.events, calls, d.now + 1),
          decrypted |-> pushTexts(d.decrypted, texts),
          now       |-> d.now + 1]

\* what every ingesting operation does with the result r of its one frame
Ingested(frame, direction, r) ==
    /\ WithinCount(r.st)
    /\ SetSession(r.st)
    /\ log' = <<Entry(frame, direction, Session, r, established)>>
    /\ established' = EstablishedAfter(established, r.calls)
    /\ malformedSeen' = Saturate(malformedSeen + (IF r.calls = <<>> THEN 1 ELSE 0))
    /\ debug' = Recorded(debug, Plaintexts(frame, direction), r.calls)

\* handleRawFrame(data, direction) inside the wrapper's try/catch
\* the wrapper around the handling of a frame, which left r
Wrapped(data, direction, op, r) ==
    /\ Ingested(data, direction, r)
    /\ lastOp' = [op |-> op, arg |-> data] @@ callOriginal(r, data)
    /\ UNCHANGED <<msgpackQueue, msgpackScheduled>>

\* a variant of HookFrame that queues a binary frame and sets no timer
HookFrameUnscheduled(data, direction, op) ==
    IF data.t = "string"
    THEN Wrapped(data, direction, op,
                 tryIgnore(handleTextFrame(Session, data, direction, documentTitle)))
    ELSE IF mode = "cpjourney" /\ acceptsBinary(data)
    THEN /\ msgpackQueue' = Append(msgpackQueue, [buf |-> data.bytes, direction |-> direction])
         /\ lastOp' = [op |-> op, arg |-> data] @@ callOriginal(Nothing(Session), data)
         /\ log' = <<>>
         /\ UNCHANGED <<sessionVars, established, malformedSeen, msgpackScheduled, debug, panel, replay, socket>>
    ELSE Wrapped(data, direction, op, Nothing(Session))

HookFrame(data, direction, op) ==
    IF data.t = "string"
    THEN Wrapped(data, direction, op,
                 tryIgnore(handleTextFrame(Session, data, direction, documentTitle)))
    ELSE IF mode = "cpjourney" /\ acceptsBinary(data)
    THEN /\ msgpackQueue' = Append(msgpackQueue, [buf |-> data.bytes, direction |-> direction])
         /\ msgpackScheduled' = TRUE
         /\ lastOp' = [op |-> op, arg |-> data] @@ callOriginal(Nothing(Session), data)
         /\ log' = <<>>
         /\ UNCHANGED <<sessionVars, established, malformedSeen, debug, panel, replay, socket>>
    ELSE Wrapped(data, direction, op, Nothing(Session))


\* The frame data leaves _msgpackQueue with at most cap entries: the bound
\* a specification puts on the frames that arrive between two drains.
Fits(data, cap) ==
    (data.t # "string" /\ mode = "cpjourney" /\ acceptsBinary(data))
        => Len(msgpackQueue) < cap

\* WebSocket.prototype.send (newcp) / the instance's send (cpjourney)
WsSend(data) ==
    /\ lastOp = Idle
    /\ HookFrame(data, "out", "send")
    /\ UNCHANGED <<mode, documentTitle, dec, panel, replay, socket>>

\* a wrapped 'message' listener of the page, called with evt.data = data
WsMessage(data) ==
    /\ lastOp = Idle
    /\ HookFrame(data, "in", "listener")
    /\ UNCHANGED <<mode, documentTitle, dec, panel, replay, socket>>

\* the decrypt wrapper after the original has run and the handling of its
\* result has left r
Decrypted(buf, r) ==
    /\ Ingested(buf, "in", r)
    /\ lastOp' = [op |-> "decrypt", arg |-> buf, origCalls |-> 1, origArgs |-> <<buf>>,
                  returnsOriginal |-> ~r.threw, escaped |-> r.threw]

\* the encrypt wrapper after the handling of the plaintext has left r
Encrypting(buf, r) ==
    /\ Ingested(buf, "out", r)
    /\ lastOp' = [op |-> "encrypt", arg |-> buf] @@ callOriginal(r, buf)

\* crypto.subtle.decrypt: the original runs first and yields the plaintext buf
CryptoDecrypt(buf) ==
    /\ lastOp = Idle
    /\ mode = "newcp"
    /\ Decrypted(buf, handlePlaintext(Session, buf, "in", documentTitle))
    /\ UNCHANGED <<mode, documentTitle, msgpackQueue, msgpackScheduled, dec, panel, replay, socket>>

\* crypto.subtle.encrypt, called with the plaintext buf
CryptoEncrypt(buf) ==
    /\ lastOp = Idle
    /\ mode = "newcp"
    /\ Encrypting(buf, handlePlaintext(Session, buf, "out", documentTitle))
    /\ UNCHANGED <<mode, documentTitle, msgpackQueue, msgpackScheduled, dec, panel, replay, socket>>

\* the loop of drainMsgpackQueue over the batch, from state st on; an
\* exception that left an iteration would end the loop
RECURSIVE drainBatch(_, _, _, _)
RECURSIVE drainRest(_, _, _, _, _)
\* a variant of drainBatch that takes the frame queued last first
drainBatchLifo(st, est, batch, title) ==
    IF batch = <<>> THEN [st |-> st, est |-> est, log |-> <<>>, escaped |-> FALSE]
    ELSE drainRest(st, est,
                   <<batch[Len(batch)]>> \o SubSeq(batch, 1, Len(batch) - 1), title,
                   drainOne(st, batch[Len(batch)], title))

drainBatch(st, est, batch, title) ==
    IF batch = <<>> THEN [st |-> st, est |-> est, log |-> <<>>, escaped |-> FALSE]
    ELSE drainRest(st, est, batch, title, drainOne(st, Head(batch), title))

\* the loop after the iteration on Head(batch), whose result is r
drainRest(st, est, batch, title, r) ==
    LET item  == Head(batch)
        entry == Entry([t |-> "arraybuffer", bytes |-> item.buf],
                       item.direction, st, r, est)
        est1  == EstablishedAfter(est, r.calls)
    IN  IF r.threw
        THEN [st |-> r.st, est |-> est1, log |-> <<entry>>, escaped |-> TRUE]
        ELSE [drainBatch(r.st, est1, Tail(batch), title)
                EXCEPT !.log = <<entry>> \o @]

RECURSIVE CallsOf(_)
CallsOf(entries) ==
    IF entries = <<>> THEN <<>> ELSE Head(entries).calls \o CallsOf(Tail(entries))

RECURSIVE CountMalformed(_)
CountMalformed(entries) ==
    IF entries = <<>> THEN 0
    ELSE (IF Head(entries).calls = <<>> THEN 1 ELSE 0) + CountMalformed(Tail(entries))

\* what the loop of drainMsgpackQueue leaves
Drained(d) ==
    /\ WithinCount(d.st)
    /\ SetSession(d.st)
    /\ established' = d.est
    /\ log' = d.log
    /\ malformedSeen' = Saturate(malformedSeen + CountMalformed(d.log))
    /\ debug' = Recorded(debug, <<>>, CallsOf(d.log))
    /\ lastOp' = [op |-> "drain", batch |-> Len(msgpackQueue), origCalls |-> 0,
                  escaped |-> d.escaped]

\* the timer callback set by handleRawFrame
DrainMsgpackQueue ==
    /\ lastOp = Idle
    /\ msgpackScheduled
    /\ Drained(drainBatch(Session, established, msgpackQueue, documentTitle))
    /\ msgpackScheduled' = FALSE
    /\ msgpackQueue' = <<>>
    /\ UNCHANGED <<mode, documentTitle, dec, panel, replay, socket>>

\* the wrapper has returned and the dispatched events have been consumed
ReturnToEventLoop ==
    /\ lastOp # Idle
    /\ lastOp' = Idle
    /\ log' = <<>>
    /\ UNCHANGED <<mode, documentTitle, sessionVars, msgpackQueue, msgpackScheduled,
                   established, malformedSeen, dec, debug, panel, replay, socket>>

---------------------------------------------------------------------------
(* The inputs.                                                             *)

Sam    == JObj([id |-> JNum(7), username |-> JStr("sam")])
Sammy  == JObj([id |-> JNum(7), nickname |-> JStr("Sammy")])
Bob    == JObj([id |-> JNum(9), username |-> JStr("bob"), nickname |-> JStr("Bobby")])
NoName == JObj([id |-> JNum(7)])
NoId   == JObj([username |-> JStr("sam")])

Env(action, args) == [action |-> action, args |-> args]

AuthEnvelopes ==
    {Env("login",       JObj([user |-> Sam])),
     Env("token_login", Bob),
     Env("game_auth",   JObj([user |-> NoId])),
     Env("game_auth",   Sammy),
     Env("load_player", JObj([user |-> NoName]))}

RoomEnvelopes ==
    {Env("join_room", JObj([room |-> JNum(100), users |-> JArr(<<Sam>>)])),
     Env("join_room", JObj([users |-> JArr(<<Bob>>)])),
     Env("join_room", JObj([room |-> JNum(2005), users |-> JArr(<<Sammy, Bob>>)])),
     Env("join_room", JObj([room |-> JNum(100), users |-> JArr(<<JNull>>)])),
     Env("join_room", JObj([room |-> JNum(2005), users |-> JArr(<<NoId>>)])),
     Env("join_room", JObj([room |-> JNum(100)])),
     Env("join_room", JObj([room |-> JNum(2005), users |-> JArr(<<Bob, JNull>>)])),
     Env("add_player", JObj([user |-> Bob])),
     Env("add_player", Sammy),
     Env("remove_player", JObj([user |-> JNum(7)])),
     Env("remove_player", EmptyObj),
     Env("ping", EmptyObj)}

ChatEnvelopes ==
    {Env("send_message", JObj([message |-> JStr("hi")])),
     Env("send_message", JObj([id |-> JNum(7), message |-> JStr("hi")])),
     Env("send_message", JObj([penguin_id |-> JNum(9), message |-> JStr("yo"),
                               username |-> JStr("inline")])),
     Env("send_message", JObj([id |-> JNum(9), message |-> JStr("")])),
     Env("send_message", JObj([message |-> JStr("yo"), name |-> JStr("inline")])),
     Env("send_emote",   JObj([id |-> JNum(7), emote |-> JNum(1)])),
     Env("send_emote",   JObj([emote |-> JNum(99)])),
     Env("send_joke",    JObj([id |-> JNum(9), joke |-> JNum(2)])),
     Env("send_safe",    JObj([id |-> JNum(7), safe |-> JNum(5)])),
     Env("send_safe",    EmptyObj),
     Env("send_tour",    EmptyObj),
     Env("give_tour",    JObj([id |-> JNum(7), message |-> JStr("hi"), room |-> JNum(100)])),
     Env("send_stage",   JObj([room_id |-> JNum(2005)]))}

Envelopes == AuthEnvelopes \cup RoomEnvelopes \cup ChatEnvelopes

\* the JSON text {"action": ..., "args": ...} of an envelope
EnvelopeJSON(e) == JObj([action |-> JStr(e.action), args |-> e.args])

Buffer(json) == [t |-> "buffer", length |-> 40, json |-> json]

\* plaintexts that are no envelope
MalformedPlaintexts ==
    {Buffer(SyntaxError), Buffer(JNull), Buffer(JNum(7)),
     Buffer(JObj([args |-> EmptyObj])),
     Buffer(JObj([action |-> JNum(7), args |-> JObj([message |-> JStr("hi")])])),
     [t |-> "buffer", length |-> 0, json |-> SyntaxError]}

\* what the server sends is decrypted, what the client sends is encrypted
InPlaintexts  == {Buffer(EnvelopeJSON(e)) : e \in Envelopes}

OutPlaintexts == {Buffer(EnvelopeJSON(e)) : e \in Envelopes}

TextFrame(json) ==
    [t |-> "string", length |-> 40, c0 |-> "4", c1 |-> "2", nsp |-> "none", json |-> json]

\* 42["<action>", <args>], the frame of a server that does not encrypt
EventFrame(e) == TextFrame(JArr(<<JStr(e.action), e.args>>))

\* 42["message", {"action": ..., "args": ...}]
MessageFrame(e) == TextFrame(JArr(<<JStr("message"), EnvelopeJSON(e)>>))

Hi == JObj([id |-> JNum(7), message |-> JStr("hi")])

MalformedTextFrames ==
    {[TextFrame(JArr(<<JStr("send_message"), Hi>>)) EXCEPT !.c1 = "0"],
     [TextFrame(JArr(<<JStr("send_message"), Hi>>)) EXCEPT !.c0 = "2"],
     [TextFrame(SyntaxError) EXCEPT !.length = 2],
     [TextFrame(JArr(<<JStr("send_message"), Hi>>)) EXCEPT !.nsp = "nocomma"],
     TextFrame(SyntaxError),
     TextFrame(EnvelopeJSON(Env("send_message", Hi))),
     TextFrame(JArr(<<>>)),
     TextFrame(JArr(<<JNum(7), Hi>>))}

HookEnvelopes ==
    {Env("login", JObj([user |-> Sam])),
     Env("join_room", JObj([room |-> JNum(100), users |-> JArr(<<JNull>>)])),
     Env("send_message", JObj([message |-> JStr("hi")])),
     Env("send_message", Hi)}

TextFrames ==
    {EventFrame(e) : e \in HookEnvelopes}
      \cup {MessageFrame(Env("send_message", Hi)),
            [MessageFrame(Env("login", JObj([user |-> Sam]))) EXCEPT !.nsp = "comma"],
            TextFrame(JArr(<<JStr("message"), JStr("b64")>>)),
            TextFrame(JArr(<<JStr("ping")>>))}
      \cup MalformedTextFrames

Packet(eventName, payload) ==
    JObj([type |-> JNum(2), data |-> JArr(<<JStr(eventName), payload>>), nsp |-> JStr("/")])

BinaryFrame(bytes) == [t |-> "arraybuffer", bytes |-> bytes]

WellFormedBinaryFrames ==
    {BinaryFrame(Encode(Packet("message", EnvelopeJSON(Env("send_message", Hi))))),
     BinaryFrame(Encode(Packet("join_room",
                               JObj([room |-> JNum(100), users |-> JArr(<<Sam>>)])))),
     BinaryFrame(Encode(Packet("join_room",
                               JObj([room |-> JNum(100), users |-> JArr(<<JNull>>)])))),
     BinaryFrame(Encode(Packet("send_message", JObj([message |-> JStr("yo")]))))}

\* a truncated packet, a control packet, an event packet with no payload,
\* a scalar, and something that is no ArrayBuffer
MalformedBinaryFrames ==
    {BinaryFrame(SubSeq(Encode(Packet("send_message", Hi)), 1, 20)),
     BinaryFrame(Encode(JObj([type |-> JNum(0), nsp |-> JStr("/")]))),
     BinaryFrame(Encode(JObj([type |-> JNum(2), data |-> JArr(<<JStr("send_message")>>)]))),
     BinaryFrame(<<7>>),
     [t |-> "blob"]}

BinaryFrames == WellFormedBinaryFrames \cup MalformedBinaryFrames

Frames == TextFrames \cup BinaryFrames

---------------------------------------------------------------------------
(* The specification of the hook.                                          *)

InitHook(modes) ==
    /\ mode \in modes
    /\ documentTitle \in {"", "Club Penguin"}
    /\ playerRegistry = [k \in {} |-> JUndef]
    /\ ownPlayerId = JNull
    /\ ownUsername = JNull
    /\ currentRoomId = JNull
    /\ msgpackQueue = <<>>
    /\ msgpackScheduled = FALSE
    /\ lastOp = Idle
    /\ log = <<>>
    /\ established = NoIdentity
    /\ malformedSeen = 0
    /\ dec = NoDecode

InitWith(modes, buffers) ==
    /\ InitHook(modes)
    /\ socket = OneListener
    /\ debug = buffers
    /\ panel = NoPanel
    /\ replay = NoReplay

InitIn(modes) == InitWith(modes, Untracked)

\* The plaintext path of the encrypted deployment, on every envelope.
Init == InitIn({"newcp"})

Next ==
    \/ \E buf \in InPlaintexts : CryptoDecrypt(buf)
    \/ \E buf \in OutPlaintexts : CryptoEncrypt(buf)
    \/ ReturnToEventLoop

Spec == Init /\ [][Next]_vars

\* Every wrapped operation of both deployments, on well-formed and
\* malformed frames.
InitHooks == InitIn({"newcp", "cpjourney"})

HookPlaintexts ==
    {Buffer(EnvelopeJSON(e)) : e \in HookEnvelopes} \cup MalformedPlaintexts

NextHooks ==
    \/ \E data \in Frames : Fits(data, MaxQueue) /\ WsSend(data)
    \/ \E data \in Frames : Fits(data, MaxQueue) /\ WsMessage(data)
    \/ \E buf \in HookPlaintexts : CryptoDecrypt(buf)
    \/ \E buf \in HookPlaintexts : CryptoEncrypt(buf)
    \/ DrainMsgpackQueue
    \/ ReturnToEventLoop

SpecHooks == InitHooks /\ [][NextHooks]_vars

---------------------------------------------------------------------------
(* The decoder on its own: one binary frame at a time passes the size     *)
(* gate of handleRawFrame and is decoded one read() per step.             *)

Repeat(bytes, k) == [i \in 1..(k * Len(bytes)) |-> bytes[((i - 1) % Len(bytes)) + 1]]

\* k arrays of one element around the value 1, and k maps of one entry
ArrayNest(k) == Repeat(<<145>>, k) \o <<1>>

MapNest(k) == Repeat(<<129, 161, 97>>, k) \o <<1>>

\* an array16 that declares n entries and holds n times null
ArrayOf(n) == <<220>> \o Bytes(n, 2) \o Repeat(<<192>>, n)

\* a map16 that declares n entries and holds the keys 0 .. n-1, each with null
MapOf(n) ==
    <<222>> \o Bytes(n, 2)
      \o [i \in 1..(2 * 128) |-> IF i % 2 = 1 THEN (i - 1) \div 2 ELSE 192]
      \o [i \in 1..(4 * (n - 128)) |->
             LET key == 128 + ((i - 1) \div 4) IN
             CASE i % 4 = 1 -> 205
               [] i % 4 = 2 -> key \div 256
               [] i % 4 = 3 -> key % 256
               [] OTHER     -> 192]

\* a bin16 block that fills a frame of n bytes
BinFrame(n) == <<197>> \o Bytes(n - 3, 2) \o Repeat(<<0>>, n - 3)

Case(kind, bytes, expect) == [kind |-> kind, bytes |-> bytes, expect |-> expect]

ScenarioBytes == <<130, 161, 97, 1, 161, 98, 2>>

\* values in the types the decoder supports, for the reference encoder
RoundTripValues ==
    {JNull, JBool(TRUE), JBool(FALSE), JStr(""), JStr("send_message"),
     JArr(<<>>), EmptyObj,
     JArr(<<JNum(1), JStr("a"), JNull>>),
     JObj([a |-> JNum(1), b |-> JNum(2)]),
     JObj([__proto__ |-> JNum(1)]),
     Packet("message", EnvelopeJSON(Env("send_message", Hi))),
     Packet("join_room", JObj([room |-> JNum(100), users |-> JArr(<<Sam, Bob>>)])),
     BigNum(0, 128, 0), BigNum(0, 255, 16777215), BigNum(1, 0, 0),
     BigNum(31, 16777215, 16777215),
     JNegBig(0, 128, 1), JNegBig(32768, 0, 0)}
      \cup {JNum(n) : n \in {0, 1, 127, 128, 255, 256, 65535, 65536, 2147483647,
                             -1, -32, -33, -128, -129, -32768, -32769,
                             -2147483647, -2147483647 - 1}}

Prefixes(bytes) == {SubSeq(bytes, 1, n) : n \in 0..(Len(bytes) - 1)}

\* a tag byte alone, and followed by FF FF FF FF 01
TagProbes ==
    {<<b>> : b \in 0..255} \cup {<<b, 255, 255, 255, 255, 1>> : b \in 128..255}

\* 64-bit integers, unsigned (tag 0xcf) and signed (tag 0xd3), with the
\* double nearest to the integer each encodes: 7, 2^32, 2^53 + 1, 2^53 + 3,
\* 2^64 - 1; and 7, -1, -2147483649, -2^63
Int64Cases ==
    {Case("uint64", <<207, 0, 0, 0, 0, 0, 0, 0, 7>>, JNum(7)),
     Case("uint64", <<207, 0, 0, 0, 1, 0, 0, 0, 0>>, BigNum(0, 256, 0)),
     Case("uint64", <<207, 0, 32, 0, 0, 0, 0, 0, 1>>, BigNum(32, 0, 0)),
     Case("uint64", <<207, 0, 32, 0, 0, 0, 0, 0, 3>>, BigNum(32, 0, 4)),
     Case("uint64", <<207, 255, 255, 255, 255, 255, 255, 255, 255>>, BigNum(65536, 0, 0)),
     Case("int64", <<211, 0, 0, 0, 0, 0, 0, 0, 7>>, JNum(7)),
     Case("int64", <<211, 255, 255, 255, 255, 255, 255, 255, 255>>, JNum(-1)),
     Case("int64", <<211, 255, 255, 255, 255, 127, 255, 255, 255>>, JNegBig(0, 128, 1)),
     Case("int64", <<211, 128, 0, 0, 0, 0, 0, 0, 0>>, JNegBig(32768, 0, 0))}

DecoderCases ==
    {Case("roundtrip", Encode(v), v) : v \in RoundTripValues}
      \cup Int64Cases
      \cup {Case("scenario", ScenarioBytes, JObj([a |-> JNum(1), b |-> JNum(2)]))}
      \cup {Case("truncated", b, JNull) :
               b \in Prefixes(Encode(Packet("send_message", Hi)))
                       \cup Prefixes(ScenarioBytes)
                       \cup Prefixes(Encode(JNum(65536)))
                       \cup Prefixes(Encode(JNegBig(0, 128, 1)))
                       \cup Prefixes(ArrayNest(10))}
      \cup {Case("probe", b, JNull) : b \in TagProbes}
      \cup {Case("depth", ArrayNest(k), k) : k \in 9..12}
      \cup {Case("depth", MapNest(k), k) : k \in 9..12}
      \cup {Case("depth", Repeat(<<145>>, 9) \o ArrayOf(n), 10) : n \in {0, 1000}}
      \cup {Case("depth", Repeat(<<145>>, 10) \o ArrayOf(0), 11)}
      \cup {Case("entries", ArrayOf(n), n) : n \in 999..1001}
      \cup {Case("entries", MapOf(n), n) : n \in 999..1001}
      \cup {Case("entries", <<221, 0, 0>> \o Bytes(n, 2) \o Repeat(<<192>>, n), n) :
               n \in {1000, 1001}}
      \cup {Case("entries", <<223, 0, 0>> \o Bytes(n, 2) \o Repeat(<<1, 192>>, n), n) :
               n \in {1000, 1001}}
      \cup {Case("entries", <<145>> \o ArrayOf(1001), 1001),
            Case("entries", <<221, 255, 255, 255, 255, 192>>, Huge)}
      \cup {Case("size", BinFrame(n), n) : n \in (MaxFrameBytes - 1)..(MaxFrameBytes + 1)}
      \cup {Case("size", ArrayOf(1000) \o Repeat(<<0>>, MaxFrameBytes - 1003 + k), 
                  MaxFrameBytes + k) : k \in 0..1}

\* handleRawFrame takes the frame, and decodeMsgpack begins on one it queued
DecodeStart(c) ==
    /\ lastOp = Idle
    /\ mode = "cpjourney"
    /\ lastOp' = [op |-> "binary", kind |-> c.kind, expect |-> c.expect,
                  length |-> Len(c.bytes)]
    /\ dec' = IF acceptsBinary(BinaryFrame(c.bytes)) THEN InitDecoder(c.bytes)
              ELSE [NoDecode EXCEPT !.status = "dropped"]
    /\ UNCHANGED <<mode, documentTitle, sessionVars, msgpackQueue, msgpackScheduled,
                   log, established, malformedSeen, debug, panel, replay, socket>>

\* one call of read()
Read ==
    /\ dec.status = "run"
    /\ dec' = ReadStep(dec)
    /\ UNCHANGED <<mode, documentTitle, sessionVars, msgpackQueue, msgpackScheduled,
                   lastOp, log, established, malformedSeen, debug, panel, replay, socket>>

\* decodeMsgpack has returned, or the frame was dropped
DecodeEnd ==
    /\ dec.status \in {"done", "fail", "dropped"}
    /\ dec' = NoDecode
    /\ lastOp' = Idle
    /\ UNCHANGED <<mode, documentTitle, sessionVars, msgpackQueue, msgpackScheduled,
                   log, established, malformedSeen, debug, panel, replay, socket>>

InitDecoderSpec == InitIn({"cpjourney"})

NextDecoder ==
    \/ \E c \in DecoderCases : DecodeStart(c)
    \/ Read
    \/ DecodeEnd

SpecDecoder == InitDecoderSpec /\ [][NextDecoder]_vars

\* decodeMsgpack is synchronous code: while a decode is in progress the
\* next call of read() is made.  This is weak fairness of Read, which is
\* enabled exactly while dec.status = "run", stated without ENABLED.
ReadRuns == []<>(dec.status # "run") \/ []<><<Read>>_vars

SpecDecoderRuns == SpecDecoder /\ ReadRuns

---------------------------------------------------------------------------
(* The lexicon on its own: resolveRoomName on room ids, and the handler   *)
(* on emote and joke envelopes of every id, in a session that joins       *)
(* rooms.                                                                 *)

\* the own keys of ROOM_NAMES
RoomTableIds == {n \in 0..999 : ROOM_NAMES(n) # JUndef}

RoomIds ==
    {JNum(n) : n \in RoomTableIds \cup {-1, 0, 101, 1234, 1999, 2000, 2001, 2005, 12345}}
      \cup {JNull, JUndef, JStr("7"), JStr("hi")}

\* the ids of an emote or a joke: the keys of both tables, numbers outside
\* them, and values that are no number
LexiconIds ==
    {JNum(n) : n \in 0..31} \cup {JNum(99), JNull, JBool(FALSE), JStr(""), JStr("7"),
                                  JStr("hi"), JStr("constructor"), JStr("toString"),
                                  JStr("__proto__")}

LexiconEnvelopes ==
    {Env("send_emote", JObj([emote |-> x])) : x \in LexiconIds}
      \cup {Env("send_joke", JObj([joke |-> x])) : x \in LexiconIds}
      \cup {Env("send_emote", EmptyObj), Env("send_joke", EmptyObj),
            Env("join_room", JObj([room |-> JNum(100)])),
            Env("join_room", JObj([room |-> JNum(12345)])),
            Env("send_message", JObj([message |-> JStr("hi"), room |-> JNum(12345)])),
            Env("send_message", JObj([message |-> JStr("hi"), room_id |-> JNum(1234)])),
            Env("send_message", JObj([message |-> JStr("hi"), room |-> JNull]))}

LexiconPlaintexts == {Buffer(EnvelopeJSON(e)) : e \in LexiconEnvelopes}

\* a call of resolveRoomName(id)
ResolveRoomName(id) ==
    /\ lastOp = Idle
    /\ lastOp' = [op |-> "resolveRoomName", id |-> id, name |-> resolveRoomName(id)]
    /\ UNCHANGED <<mode, documentTitle, sessionVars, msgpackQueue, msgpackScheduled,
                   log, established, malformedSeen, dec, debug, panel, replay, socket>>

NextLexicon ==
    \/ \E id \in RoomIds : ResolveRoomName(id)
    \/ \E buf \in LexiconPlaintexts : CryptoDecrypt(buf)
    \/ \E buf \in LexiconPlaintexts : CryptoEncrypt(buf)
    \/ ReturnToEventLoop

SpecLexicon == Init /\ [][NextLexicon]_vars

---------------------------------------------------------------------------
(* The msgpack queue of the deployment that decodes binary frames: frames *)
(* arrive while a drain is pending, and the timer callback drains them.   *)
(* The host runs a timer it has set, and a wrapper returns.               *)

JoinSam == BinaryFrame(Encode(Packet("join_room",
                                     JObj([room |-> JNum(100), users |-> JArr(<<Sam>>)]))))

SaysHi == BinaryFrame(Encode(Packet("message", EnvelopeJSON(Env("send_message", Hi)))))

Truncated == BinaryFrame(SubSeq(Encode(Packet("send_message", Hi)), 1, 20))

JoinNobody == BinaryFrame(Encode(Packet("join_room",
                                        JObj([room |-> JNum(100), users |-> JArr(<<JNull>>)]))))

SaysYo == BinaryFrame(Encode(Packet("send_message", JObj([message |-> JStr("yo")]))))

\* what the server sends: the last one is above the size cap and not queued
QueueFramesIn == {JoinSam, SaysHi, Truncated, JoinNobody, BinaryFrame(BinFrame(MaxFrameBytes + 1))}

QueueFramesOut == {SaysYo}

InitQueue == InitIn({"cpjourney"})

\* The chat frames counted and waiting stay within the cap on messageCount,
\* so that the cap never withholds a drain.
WithinBudget(data) ==
    LET counted == IF JNum(7) \in DOMAIN playerRegistry
                   THEN playerRegistry[JNum(7)].messageCount ELSE 0
        waiting == Cardinality({i \in 1..Len(msgpackQueue) :
                                  msgpackQueue[i].buf \in {SaysHi.bytes, SaysYo.bytes}})
    IN  data \in {SaysHi, SaysYo} => counted + waiting < MaxCount

Admits(data) == Fits(data, MaxBatch) /\ WithinBudget(data)

NextQueue ==
    \/ \E data \in QueueFramesIn : Admits(data) /\ WsMessage(data)
    \/ \E data \in QueueFramesOut : Admits(data) /\ WsSend(data)
    \/ DrainMsgpackQueue
    \/ ReturnToEventLoop

\* The host runs the timer callback that handleRawFrame has set: a callback
\* that is due again and again (scheduled, with no wrapper running) runs.
\* This is strong fairness of DrainMsgpackQueue, which is enabled exactly
\* when the callback is due, stated on the states it is due in and leaves.
TimerRuns ==
    []<>(lastOp = Idle /\ msgpackScheduled) => []<>(lastOp.op = "drain")

SpecQueue ==
    /\ InitQueue /\ [][NextQueue]_vars
    /\ TimerRuns
    /\ WF_vars(ReturnToEventLoop)

---------------------------------------------------------------------------
(* The two transports of the deployment that does not encrypt: each        *)
(* [eventName, payload] arrives as a text frame and as a msgpack frame.    *)

Pair(eventName, payload) == [eventName |-> eventName, payload |-> payload]

\* k maps, one inside the other
RECURSIVE Deep(_)
Deep(k) == IF k = 0 THEN JNum(1) ELSE JObj([a |-> Deep(k - 1)])

\* the payload of a msgpack packet sits at depth 3 (packet, data, payload)
PayloadDepth == 3

\* a payload whose innermost map is at depth MAX_DEPTH, and one a level deeper
DeepestPair == Pair("send_message", JObj([message |-> JStr("yo"),
                                          data |-> Deep(MAX_DEPTH - PayloadDepth)]))

TooDeepPair == Pair("send_message", JObj([message |-> JStr("hi"),
                                          data |-> Deep(MAX_DEPTH - PayloadDepth + 1)]))

\* an actor id below -2^31, which msgpack encodes as a 64-bit integer
Int64Pair == Pair("send_message", JObj([id |-> JNegBig(0, 128, 1), message |-> JStr("hi"),
                                        username |-> JStr("inline")]))

CarriedPairs ==
    {Pair("message", EnvelopeJSON(Env("login", JObj([user |-> Sam])))),
     Pair("message", EnvelopeJSON(Env("send_message", Hi))),
     Pair("message", JObj([action |-> JStr("send_tour")])),
     Pair("message", JObj([action |-> JNum(7), id |-> JNum(7)])),
     Pair("join_room", JObj([room |-> JNum(100), users |-> JArr(<<Bob>>)])),
     Pair("join_room", JObj([room |-> JNum(2005), users |-> JArr(<<JNull>>)])),
     Pair("send_message", JObj([message |-> JStr("yo")])),
     Pair("remove_player", JObj([user |-> JNum(7)])),
     DeepestPair, TooDeepPair, Int64Pair}

\* 42["<eventName>", <payload>]
AsText(p) == TextFrame(JArr(<<JStr(p.eventName), p.payload>>))

\* the msgpack packet {type: 2, data: [<eventName>, <payload>], nsp: "/"}
AsBinary(p) == BinaryFrame(Encode(Packet(p.eventName, p.payload)))

TransportFrames == {AsText(p) : p \in CarriedPairs} \cup {AsBinary(p) : p \in CarriedPairs}

InitTransport == InitIn({"cpjourney"})

NextTransport ==
    \/ \E data \in TransportFrames : Fits(data, MaxQueue) /\ WsMessage(data)
    \/ \E data \in TransportFrames : Fits(data, MaxQueue) /\ WsSend(data)
    \/ DrainMsgpackQueue
    \/ ReturnToEventLoop

SpecTransport == InitTransport /\ [][NextTransport]_vars

---------------------------------------------------------------------------
(* The two frame parsers, applied to frames of every shape, and the        *)
(* stealth hook's handling of the same frames.                             *)

\* what the text of a frame, from jsonStart on, denotes
ParserBodies ==
    {SyntaxError, JNull, JNum(7), EnvelopeJSON(Env("send_message", Hi)),
     JArr(<<>>),
     JArr(<<JNum(7), Hi>>),
     JArr(<<JNull, Hi>>),
     JArr(<<JStr("ping")>>),
     JArr(<<JStr("send_message"), Hi>>),
     JArr(<<JStr("send_message"), JNull>>),
     JArr(<<JStr("send_message"), JNum(0)>>),
     JArr(<<JStr("send_message"), JStr("")>>),
     JArr(<<JStr("send_message"), JBool(FALSE)>>),
     JArr(<<JStr("send_message"), JStr("hi")>>),
     JArr(<<JStr("send_message"), JArr(<<Hi>>)>>),
     JArr(<<JStr("message"), EnvelopeJSON(Env("send_message", Hi))>>),
     JArr(<<JStr("send_message"), Hi, JNum(1)>>)}

\* every body behind every two-character prefix, with and without a
\* namespace; a frame of two characters; and values that are no string
ParserTextFrames ==
    {[TextFrame(j) EXCEPT !.c0 = a, !.c1 = b, !.nsp = n] :
        j \in ParserBodies, a \in {"4", "2"}, b \in {"2", "0"},
        n \in {"none", "comma", "nocomma"}}
      \cup {[TextFrame(SyntaxError) EXCEPT !.length = 2],
            BinaryFrame(<<7>>), [t |-> "blob"]}

\* the values a binary frame decodes to, besides the failure signal
ParserPackets ==
    {JNum(7), JNull, JStr("message"), JArr(<<JNum(2), JArr(<<JStr("send_message"), Hi>>)>>),
     EmptyObj,
     JObj([type |-> JNum(0), nsp |-> JStr("/")]),
     JObj([type |-> JNum(3), data |-> JArr(<<JStr("send_message"), Hi>>)]),
     JObj([type |-> JStr("2"), data |-> JArr(<<JStr("send_message"), Hi>>)]),
     JObj([data |-> JArr(<<JStr("send_message"), Hi>>)]),
     JObj([type |-> JNum(2)]),
     JObj([type |-> JNum(2), data |-> Hi]),
     JObj([type |-> JNum(2), data |-> JArr(<<>>)]),
     JObj([type |-> JNum(2), data |-> JArr(<<JStr("send_message")>>)]),
     JObj([type |-> JNum(2), data |-> JArr(<<JNum(7), Hi>>)]),
     JObj([type |-> JNum(2), data |-> JArr(<<JStr("send_message"), JNull>>)]),
     JObj([type |-> JNum(2), data |-> JArr(<<JStr("send_message"), JStr("hi")>>)]),
     JObj([type |-> JNum(2), data |-> JArr(<<JStr("send_message"), JArr(<<Hi>>)>>)]),
     JObj([type |-> JNum(2), data |-> JArr(<<JStr("send_message"), Hi, JNum(1)>>)]),
     Packet("send_message", Hi),
     Packet("message", EnvelopeJSON(Env("send_message", Hi))),
     Packet("join_room", JObj([room |-> JNum(100), users |-> JArr(<<Sam>>)]))}

\* their encodings, and buffers that fail to decode: empty, truncated, too
\* deep
ParserBinaryFrames ==
    {BinaryFrame(Encode(v)) : v \in ParserPackets}
      \cup {BinaryFrame(<<>>),
            BinaryFrame(SubSeq(Encode(Packet("send_message", Hi)), 1, 20)),
            BinaryFrame(Encode(Packet(TooDeepPair.eventName, TooDeepPair.payload)))}

\* parseSocketIOTextFrame(frame)
ParseTextFrame(frame) ==
    /\ lastOp = Idle
    /\ lastOp' = [op |-> "parseText", frame |-> frame,
                  result |-> parseSocketIOTextFrame(frame)]
    /\ UNCHANGED <<mode, documentTitle, sessionVars, msgpackQueue, msgpackScheduled, log,
                   established, malformedSeen, dec, debug, panel, replay, socket>>

\* parseMsgpackSocketIOFrame(buf) after its call of decodeMsgpack, which
\* returned packet
ParsedPacket(frame, packet) ==
    lastOp' = [op |-> "parseBinary", frame |-> frame, packet |-> packet,
               result |-> eventOfPacket(packet)]

\* parseMsgpackSocketIOFrame(frame.bytes)
ParseBinaryFrame(frame) ==
    /\ lastOp = Idle
    /\ ParsedPacket(frame, decodeMsgpack(frame.bytes))
    /\ UNCHANGED <<mode, documentTitle, sessionVars, msgpackQueue, msgpackScheduled, log,
                   established, malformedSeen, dec, debug, panel, replay, socket>>

InitParsers == InitIn({"cpjourney"})

NextParsers ==
    \/ \E frame \in ParserTextFrames : ParseTextFrame(frame)
    \/ \E frame \in ParserBinaryFrames : ParseBinaryFrame(frame)
    \/ \E data \in ParserTextFrames \cup ParserBinaryFrames :
          Fits(data, MaxQueue) /\ WsMessage(data)
    \/ DrainMsgpackQueue
    \/ ReturnToEventLoop

SpecParsers == InitParsers /\ [][NextParsers]_vars

---------------------------------------------------------------------------
(* A long session of the encrypted deployment with the debug buffers      *)
(* followed.  The session is one script: its k-th operation and frame are  *)
(* Arrival(k), so that every entry recorded can be told from every other.  *)

MaxOverflow == 2    \* operations past EVENTS_CAP + DECRYPTED_CAP

SessionLength == EVENTS_CAP + DECRYPTED_CAP + MaxOverflow

Ping(k) == Env(IF k % 2 = 0 THEN "ping" ELSE "heartbeat", JObj([id |-> JNum(k)]))

LongBuffer(json) == [t |-> "buffer", length |-> 500, json |-> json]

Arrival(k) ==
    IF k % 5 = 0 THEN [op |-> "decrypt", data |-> Buffer(JNum(k))]
    ELSE IF k % 3 = 0 THEN [op |-> "send", data |-> EventFrame(Ping(k))]
    ELSE IF k % 7 = 0 THEN [op |-> "encrypt", data |-> LongBuffer(EnvelopeJSON(Ping(k)))]
    ELSE IF k % 2 = 0 THEN [op |-> "encrypt", data |-> Buffer(EnvelopeJSON(Ping(k)))]
    ELSE [op |-> "decrypt", data |-> Buffer(EnvelopeJSON(Ping(k)))]

\* the frame the script hands to operation op next, if it is op's turn
Arriving(op) ==
    IF debug.now < SessionLength /\ Arrival(debug.now + 1).op = op
    THEN {Arrival(debug.now + 1).data}
    ELSE {}

InitDebug == InitWith({"newcp"}, EmptyBuffers)

NextDebug ==
    \/ \E buf \in Arriving("decrypt") : CryptoDecrypt(buf)
    \/ \E buf \in Arriving("encrypt") : CryptoEncrypt(buf)
    \/ \E data \in Arriving("send") : WsSend(data)
    \/ ReturnToEventLoop

SpecDebug == InitDebug /\ [][NextDebug]_vars

---------------------------------------------------------------------------
(* The content script: ingest, with its deduplication, and the message    *)
(* store with its pruning.  The panel is                                   *)
(*   [loaded, now, recentHashes, timers, store, nextId, rows, event, sent] *)
(* now is Date.now() in milliseconds; timers holds the pending callbacks   *)
(* that delete a hash; store is the object store in the order of its ids   *)
(* and rows the records rendered.  event and sent describe the chat event  *)
(* the hook is dispatching: its number, name and text, and how many of the *)
(* interception layers have dispatched it so far.                          *)

MAX_MESSAGES == 10000
HASH_TTL     == 3000    \* setTimeout(() => recentHashes.delete(hash), 3000)
SECOND       == 1000    \* Math.floor(msg.timestamp / 1000)

\* `${msg.username}|${msg.message}|${Math.floor(msg.timestamp / 1000)}`
makeHash(msg) == <<msg.username, msg.message, msg.timestamp \div SECOND>>

\* The cursor over the timestamp index, opened when count > MAX_MESSAGES.
\* excess is a const that the callback never changes, so its test
\* `excess <= 0` fails at every position and the cursor deletes every record
\* of the index: every record whose timestamp is a number.
pruned(records, excess) ==
    IF excess <= 0 THEN records ELSE <<>>

\* store.add(record) and the count() callback in the same transaction
dbPut(p, record) ==
    LET added == Append(p.store, [record EXCEPT !.id = p.nextId])
        count == Len(added)
    IN  [p EXCEPT !.nextId = @ + 1,
                  !.store  = IF count > MAX_MESSAGES
                             THEN pruned(added, count - MAX_MESSAGES)
                             ELSE added]

\* appendToPanel with the panel open, no filter set and no replay running
appendToPanel(p, record) == [p EXCEPT !.rows = Append(@, record)]

ingest(p, detail) ==
    LET hash   == makeHash(detail)
        record == [id |-> 0, timestamp |-> detail.timestamp,
                   username |-> detail.username, message |-> detail.message,
                   event |-> detail.event]
    IN  IF hash \in p.recentHashes THEN p
        ELSE appendToPanel(
                 dbPut([p EXCEPT !.recentHashes = @ \cup {hash},
                                 !.timers = @ \cup {[hash |-> hash, due |-> p.now + HASH_TTL]}],
                       record),
                 record)

MaxEvents == 2    \* chat events the hook dispatches
MaxLayers == 2    \* interception layers that fire for one chat event
MaxTicks  == 2    \* steps of the clock

NoEvent == [id |-> 0]

\* the store that earlier page loads left: n records, stamped 1..n
StoredBefore(n) ==
    [i \in 1..n |-> [id |-> i, timestamp |-> i, username |-> "sam",
                      message |-> "old", event |-> 0]]

PanelWith(n) ==
    [loaded |-> TRUE, now |-> MAX_MESSAGES + SECOND - 2, ticks |-> 0,
     recentHashes |-> {}, timers |-> {},
     store |-> StoredBefore(n), nextId |-> n + 1, rows |-> <<>>,
     event |-> NoEvent, sent |-> 0]

\* the detail of the event being dispatched, stamped by the hook's Date.now()
Detail(p) ==
    [timestamp |-> p.now, username |-> p.event.username,
     message |-> p.event.message, event |-> p.event.id]

\* a layer of the hook dispatches a new chat event and the listener ingests it
Dispatch(username, message) ==
    /\ panel.loaded
    /\ panel.event.id < MaxEvents
    /\ LET p == [panel EXCEPT !.event = [id |-> panel.event.id + 1,
                                         username |-> username, message |-> message],
                              !.sent = 1]
       IN  panel' = ingest(p, Detail(p))
    /\ UNCHANGED <<hookVars, replay, socket>>

\* a further layer dispatches the chat event that was dispatched last
DispatchAgain ==
    /\ panel.loaded
    /\ panel.event # NoEvent
    /\ panel.sent < MaxLayers
    /\ panel' = ingest([panel EXCEPT !.sent = @ + 1], Detail(panel))
    /\ UNCHANGED <<hookVars, replay, socket>>

\* a pending timer, which is due, deletes its hash
HashExpires ==
    /\ panel.loaded
    /\ \E t \in panel.timers :
          /\ t.due <= panel.now
          /\ panel' = [panel EXCEPT !.timers = @ \ {t},
                                    !.recentHashes = @ \ {t.hash}]
    /\ UNCHANGED <<hookVars, replay, socket>>

\* time passes
Tick(ms) ==
    /\ panel.loaded
    /\ panel.ticks < MaxTicks
    /\ panel' = [panel EXCEPT !.now = @ + ms, !.ticks = @ + 1]
    /\ UNCHANGED <<hookVars, replay, socket>>

InitPanel ==
    /\ InitHook({"newcp"})
    /\ socket = OneListener
    /\ debug = Untracked
    /\ panel = PanelWith(0)
    /\ replay = NoReplay

NextPanel ==
    \/ \E u \in {"sam", "bob"} : Dispatch(u, "hi")
    \/ DispatchAgain
    \/ HashExpires
    \/ \E ms \in {1, HASH_TTL} : Tick(ms)

SpecPanel == InitPanel /\ [][NextPanel]_vars

\* the same, from a store that is full or nearly so
InitStore ==
    /\ InitHook({"newcp"})
    /\ socket = OneListener
    /\ debug = Untracked
    /\ \E n \in {MAX_MESSAGES - 1, MAX_MESSAGES} : panel = PanelWith(n)
    /\ replay = NoReplay

SpecStore == InitStore /\ [][NextPanel]_vars

---------------------------------------------------------------------------
(* The page registers and removes its handlers of the 'message' event on  *)
(* a hooked socket, and the socket dispatches message events to them.      *)

MaxHandlers == 2    \* wrappers made for the handlers the page registers

\* the native addEventListener: a callback already in the list is not added
nativeAdd(listeners, callback) ==
    IF \E i \in 1..Len(listeners) : listeners[i] = callback THEN listeners
    ELSE Append(listeners, callback)

\* the native removeEventListener
nativeRemove(listeners, callback) ==
    SelectSeq(listeners, LAMBDA c : c # callback)

\* the hooked addEventListener('message', fn): a new wrapper each time
addEventListener(sk, fn) ==
    [sk EXCEPT !.listeners = nativeAdd(@, WrapperOf(fn, sk.wrappers + 1)),
               !.wrappers  = @ + 1,
               !.plain     = nativeAdd(@, PageFn(fn))]

\* removeEventListener('message', fn), which the hook leaves as it is
removeEventListener(sk, fn) ==
    [sk EXCEPT !.listeners = nativeRemove(@, PageFn(fn)),
               !.plain     = nativeRemove(@, PageFn(fn))]

\* the hooked setter of onmessage, called with the function fn
setOnmessage(sk, fn) ==
    [sk EXCEPT !.onmessage = WrapperOf(fn, sk.wrappers + 1),
               !.wrappers  = @ + 1,
               !.plainOn   = PageFn(fn)]

\* the callbacks a message event calls: the listeners in their order, then
\* the handler attribute
Callbacks(listeners, onmessage) ==
    listeners \o (IF onmessage = NoHandler THEN <<>> ELSE <<onmessage>>)

\* what the dispatch of one message event has done so far
Dispatching(st, est, queue, scheduled) ==
    [st |-> st, est |-> est, queue |-> queue, scheduled |-> scheduled,
     log |-> <<>>, invoked |-> <<>>, handled |-> 0]

\* the wrapper of fn, called with evt.data = data, after a has been done:
\* try { handleRawFrame(evt.data, 'in') } catch {}; return fn.call(this, evt)
wrappedListener(a, fn, data, title, md) ==
    LET r == IF data.t = "string"
             THEN tryIgnore(handleTextFrame(a.st, data, "in", title))
             ELSE Nothing(a.st)
        queued == data.t # "string" /\ md = "cpjourney" /\ acceptsBinary(data)
    IN  [st        |-> r.st,
         est       |-> EstablishedAfter(a.est, r.calls),
         queue     |-> IF queued
                       THEN Append(a.queue, [buf |-> data.bytes, direction |-> "in"])
                       ELSE a.queue,
         scheduled |-> a.scheduled \/ queued,
         log       |-> IF queued THEN a.log
                       ELSE Append(a.log, Entry(data, "in", a.st, r, a.est)),
         invoked   |-> Append(a.invoked, fn),
         handled   |-> a.handled + 1]

RECURSIVE dispatchMessage(_, _, _, _, _)
\* the socket calls the callbacks in turn with the same event
dispatchMessage(a, callbacks, data, title, md) ==
    IF callbacks = <<>> THEN a
    ELSE LET cb == Head(callbacks) IN
         dispatchMessage(IF cb.wrapper = 0
                         THEN [a EXCEPT !.invoked = Append(@, cb.fn)]
                         ELSE wrappedListener(a, cb.fn, data, title, md),
                         Tail(callbacks), data, title, md)

FnsOf(callbacks) == [i \in 1..Len(callbacks) |-> callbacks[i].fn]

\* what the dispatch of a message event leaves
Dispatched(d, data) ==
    /\ WithinCount(d.st)
    /\ Len(d.queue) <= MaxBatch
    /\ SetSession(d.st)
    /\ established' = d.est
    /\ log' = d.log
    /\ msgpackQueue' = d.queue
    /\ msgpackScheduled' = d.scheduled
    /\ malformedSeen' = Saturate(malformedSeen + CountMalformed(d.log))
    /\ debug' = Recorded(debug, <<>>, CallsOf(d.log))
    /\ lastOp' = [op |-> "message", arg |-> data, handled |-> d.handled,
                  queued |-> Len(d.queue) - Len(msgpackQueue),
                  invoked |-> d.invoked,
                  unhooked |-> FnsOf(Callbacks(socket.plain, socket.plainOn)),
                  origCalls |-> 0, escaped |-> FALSE]

\* a message event with evt.data = data is dispatched on the socket
MessageEvent(data) ==
    /\ lastOp = Idle
    /\ Dispatched(dispatchMessage(
                      Dispatching(Session, established, msgpackQueue, msgpackScheduled),
                      Callbacks(socket.listeners, socket.onmessage),
                      data, documentTitle, mode),
                  data)
    /\ UNCHANGED <<mode, documentTitle, dec, panel, replay, socket>>

\* what leaves the socket alone but for sk
PageSets(sk) ==
    /\ lastOp = Idle
    /\ socket' = sk
    /\ UNCHANGED <<hookVars, panel, replay>>

\* the page calls ws.addEventListener('message', fn)
AddEventListener(fn) ==
    /\ socket.wrappers < MaxHandlers
    /\ PageSets(addEventListener(socket, fn))

\* the page calls ws.removeEventListener('message', fn)
RemoveEventListener(fn) ==
    /\ \E i \in 1..Len(socket.plain) : socket.plain[i].fn = fn
    /\ PageSets(removeEventListener(socket, fn))

\* the page assigns ws.onmessage = fn
SetOnmessage(fn) ==
    /\ socket.wrappers < MaxHandlers
    /\ PageSets(setOnmessage(socket, fn))

ListenerFrames ==
    {EventFrame(Env("send_message", JObj([message |-> JStr("hi")]))),
     EventFrame(Env("login", JObj([user |-> Sam]))),
     EventFrame(Env("send_message", Hi)),
     TextFrame(SyntaxError),
     BinaryFrame(Encode(Packet("send_message", JObj([message |-> JStr("yo")]))))}

InitListeners ==
    /\ InitHook({"newcp", "cpjourney"})
    /\ debug = Untracked
    /\ panel = NoPanel
    /\ replay = NoReplay
    /\ socket = NewSocket

NextListeners ==
    \/ \E fn \in {"f", "g"} : AddEventListener(fn)
    \/ \E fn \in {"f", "g"} : RemoveEventListener(fn)
    \/ \E fn \in {"f", "g"} : SetOnmessage(fn)
    \/ \E data \in ListenerFrames : MessageEvent(data)
    \/ DrainMsgpackQueue
    \/ ReturnToEventLoop

SpecListeners == InitListeners /\ [][NextListeners]_vars

---------------------------------------------------------------------------
(* Replay mode of the panel (bootstrap.js 1263-1450).  The variable       *)
(* replay holds replayActive, replayPlaying, replayMessages, replayIndex, *)
(* replayTimer, sliderGrabbed and wasPlayingBeforeGrab under the names    *)
(* active, playing, messages, index, timer, grabbed and wasPlaying; the   *)
(* object store as dbGetAll returns it (store); the number of enterReplay *)
(* calls that wait for dbGetAll (loads); the timers of setTimeout that    *)
(* have neither fired nor been cleared (pending); the ids of the records  *)
(* the replay code has put in messageList since it last emptied the list  *)
(* (rendered); and the last function that ran (op).  A timer id is a      *)
(* positive number that no pending timer has; 0 stands for null.  The     *)
(* delay of a timer is not modelled: a pending timer fires at any later   *)
(* moment.                                                                *)

MaxTimers == 3
MaxLoads == 2

Stored(id, timestamp) == [id |-> id, timestamp |-> timestamp]

\* object stores of the panel, in key order
ReplayStores ==
    {<<>>,
     <<Stored(1, 20), Stored(2, 10)>>,
     <<Stored(1, 10), Stored(2, 30), Stored(3, 10)>>}

\* records.sort((a, b) => a.timestamp - b.timestamp): Array.prototype.sort
\* is stable
RECURSIVE insertByTimestamp(_, _)
insertByTimestamp(sorted, record) ==
    IF sorted = <<>> THEN <<record>>
    ELSE IF sorted[Len(sorted)].timestamp <= record.timestamp
         THEN Append(sorted, record)
         ELSE Append(insertByTimestamp(SubSeq(sorted, 1, Len(sorted) - 1),
                                       record),
                     sorted[Len(sorted)])

RECURSIVE sortByTimestamp(_)
sortByTimestamp(records) ==
    IF records = <<>> THEN <<>>
    ELSE insertByTimestamp(
             sortByTimestamp(SubSeq(records, 1, Len(records) - 1)),
             records[Len(records)])

ReplayOf(store) ==
    [active |-> FALSE, playing |-> FALSE, messages |-> <<>>, index |-> 0,
     timer |-> 0, grabbed |-> FALSE, wasPlaying |-> FALSE,
     store |-> store, loads |-> 0, pending |-> {}, rendered |-> <<>>,
     op |-> "none"]

\* setTimeout(callback, delay): a timer with an id no pending timer has
setTimeout(r) ==
    CHOOSE id \in 1..MaxTimers :
        /\ id \notin r.pending
        /\ \A lower \in 1..(id - 1) : lower \in r.pending

\* there is room for one more timer within the bound
CanSchedule(r) == Cardinality(r.pending) < MaxTimers

clearTimeout(r, id) == [r EXCEPT !.pending = @ \ {id}]

\* showReplayMessage(idx); JavaScript counts the messages from 0
showReplayMessage(r, idx) ==
    IF idx < 0 \/ idx >= Len(r.messages) THEN r
    ELSE [r EXCEPT !.rendered = Append(@, r.messages[idx + 1].id)]

stopReplayPlayback(r) ==
    LET stopped == [r EXCEPT !.playing = FALSE]
    IN  IF stopped.timer # 0
        THEN [clearTimeout(stopped, stopped.timer) EXCEPT !.timer = 0]
        ELSE stopped

RECURSIVE scheduleNextMessage(_)
scheduleNextMessage(r) ==
    IF ~r.playing \/ ~r.active THEN r
    ELSE IF r.index >= Len(r.messages) THEN stopReplayPlayback(r)
    ELSE IF r.index = 0
    THEN scheduleNextMessage(
             [showReplayMessage(r, r.index) EXCEPT !.index = @ + 1])
    ELSE [r EXCEPT !.timer = setTimeout(r),
                   !.pending = @ \cup {setTimeout(r)}]

startReplayPlayback(r) ==
    IF ~r.active THEN r
    ELSE IF r.index >= Len(r.messages) THEN r
    ELSE scheduleNextMessage([r EXCEPT !.playing = TRUE])

\* the part of enterReplay that follows `await dbGetAll(filter)`
enterReplayLoaded(r, records) ==
    IF Len(records) = 0 THEN r
    ELSE startReplayPlayback(
             [r EXCEPT !.messages = sortByTimestamp(records),
                       !.index = 0,
                       !.active = TRUE,
                       !.playing = FALSE,
                       !.rendered = <<>>])

exitReplay(r) ==
    [stopReplayPlayback(r) EXCEPT !.active = FALSE,
                                  !.playing = FALSE,
                                  !.messages = <<>>,
                                  !.index = 0]

toggleReplayPlayback(r) ==
    IF r.playing THEN stopReplayPlayback(r) ELSE startReplayPlayback(r)

\* the callback that scheduleNextMessage hands to setTimeout
replayTimerFired(r) ==
    LET cleared == [r EXCEPT !.timer = 0]
    IN  IF ~cleared.playing \/ ~cleared.active THEN cleared
        ELSE scheduleNextMessage(
                 [showReplayMessage(cleared, cleared.index)
                      EXCEPT !.index = @ + 1])

handleSliderScrub(r, targetIdx) ==
    IF ~r.active THEN r
    ELSE [r EXCEPT !.rendered = [i \in 1..(targetIdx + 1)
                                     |-> r.messages[i].id],
                   !.index = targetIdx + 1]

handleSliderGrab(r) ==
    LET grabbed == [r EXCEPT !.grabbed = TRUE, !.wasPlaying = r.playing]
    IN  IF grabbed.playing THEN stopReplayPlayback(grabbed) ELSE grabbed

handleSliderRelease(r) ==
    LET released == [r EXCEPT !.grabbed = FALSE]
    IN  IF released.wasPlaying THEN startReplayPlayback(released)
        ELSE released

handleReplaySpeedChange(r) ==
    IF r.playing /\ r.active
    THEN scheduleNextMessage(
             IF r.timer # 0
             THEN [clearTimeout(r, r.timer) EXCEPT !.timer = 0]
             ELSE r)
    ELSE r

\* the replay function fn has run and left the state to
Replayed(fn, to) ==
    /\ replay' = [to EXCEPT !.op = fn]
    /\ UNCHANGED <<hookVars, panel, socket>>

\* a click on the replay button, which enterReplay hides once its records
\* are loaded: the call runs up to `await dbGetAll(filter)`
EnterReplay ==
    /\ ~replay.active
    /\ replay.loads < MaxLoads
    /\ Replayed("enterReplay", [replay EXCEPT !.loads = @ + 1])

\* dbGetAll resolves and an enterReplay call runs to its end
ReplayLoaded ==
    /\ replay.loads > 0
    /\ CanSchedule(replay)
    /\ Replayed("loaded",
                enterReplayLoaded([replay EXCEPT !.loads = @ - 1],
                                  replay.store))

\* the exit button of the replay bar; closing the panel and changing a
\* filter call exitReplay as well when replayActive is true
ExitReplay ==
    /\ replay.active
    /\ Replayed("exitReplay", exitReplay(replay))

\* the play button of the replay bar
ToggleReplayPlayback ==
    /\ replay.active
    /\ replay.playing \/ CanSchedule(replay)
    /\ Replayed("toggleReplayPlayback", toggleReplayPlayback(replay))

\* the speed selector of the replay bar
ReplaySpeedChange ==
    /\ replay.active
    /\ Replayed("handleReplaySpeedChange", handleReplaySpeedChange(replay))

\* mousedown or touchstart on the slider
SliderGrab ==
    /\ replay.active
    /\ ~replay.grabbed
    /\ Replayed("handleSliderGrab", handleSliderGrab(replay))

\* the slider is dragged to the message number targetIdx
SliderScrub(targetIdx) ==
    /\ replay.active
    /\ replay.grabbed
    /\ targetIdx < Len(replay.messages)
    /\ Replayed("handleSliderScrub", handleSliderScrub(replay, targetIdx))

\* mouseup or touchend on the slider
SliderRelease ==
    /\ replay.active
    /\ replay.grabbed
    /\ CanSchedule(replay)
    /\ Replayed("handleSliderRelease", handleSliderRelease(replay))

\* a pending timer fires
ReplayTimerFires(id) ==
    /\ id \in replay.pending
    /\ Replayed("timer", replayTimerFired(clearTimeout(replay, id)))

InitReplay ==
    /\ InitHook({"newcp"})
    /\ socket = OneListener
    /\ debug = Untracked
    /\ panel = NoPanel
    /\ \E store \in ReplayStores : replay = ReplayOf(store)

NextReplay ==
    \/ EnterReplay
    \/ ReplayLoaded
    \/ ExitReplay
    \/ ToggleReplayPlayback
    \/ ReplaySpeedChange
    \/ SliderGrab
    \/ \E targetIdx \in 0..2 : SliderScrub(targetIdx)
    \/ SliderRelease
    \/ \E id \in 1..MaxTimers : ReplayTimerFires(id)

SpecReplay == InitReplay /\ [][NextReplay]_vars

---------------------------------------------------------------------------
(* Properties of the handler, over the record the log keeps of each       *)
(* frame: the session before it (pre) and after it (post), the identity   *)
(* established before it (est), and the events it dispatched.             *)

\* the one envelope a logged frame carried
IsEnvelope(e) == Len(e.calls) = 1

ActionOf(e) == e.calls[1].action

ArgsOf(e) == e.calls[1].args

\* a chat-classified envelope that resolves to non-empty text
Qualifies(e) ==
    /\ IsEnvelope(e)
    /\ ActionOf(e) \in {"send_message", "send_safe", "send_emote", "send_joke",
                        "send_tour", "give_tour", "send_stage"}
    /\ Truthy(messageText(ActionOf(e), ArgsOf(e)))

\* C1: once the session identity was last established with id I and a
\* non-empty username U, an outbound chat envelope that carries no actor id
\* and resolves to non-empty text emits one ChatEvent with username U and
\* playerId I, whatever was processed since.
C1_OutboundUsesIdentity ==
    \A i \in 1..Len(log) :
        LET e == log[i] IN
        (/\ Qualifies(e)
         /\ e.direction = "out"
         /\ penguinIdOf(ArgsOf(e)) = JUndef
         /\ e.est.set
         /\ Truthy(e.est.name))
        => /\ Len(e.chat) = 1
           /\ e.chat[1].username = e.est.name
           /\ e.chat[1].playerId = e.est.id
           /\ e.chat[1].direction = "out"
           /\ e.chat[1].message = messageText(ActionOf(e), ArgsOf(e))

\* identity {id: 7, username: "sam"}, then a room with Bob in it, then the
\* outbound send_message {message: "hi"}
C1_Witness ==
    /\ Len(log) = 1
    /\ log[1].direction = "out"
    /\ log[1].calls = <<[action |-> "send_message",
                         args |-> JObj([message |-> JStr("hi")]), direction |-> "out"]>>
    /\ log[1].est.set /\ log[1].est.id = JNum(7) /\ log[1].est.name = JStr("sam")
    /\ JNum(9) \in DOMAIN log[1].pre.reg
    /\ log[1].pre.room # JNull
    /\ Len(log[1].chat) = 1
    /\ log[1].chat[1].username = JStr("sam")
    /\ log[1].chat[1].message = JStr("hi")
    /\ log[1].chat[1].playerId = JNum(7)

\* C2: an inbound chat envelope whose actor id X (args.id, else
\* args.penguin_id) is in the registry emits a ChatEvent whose username is the
\* entry's nickname if non-empty, else its username, whatever inline
\* username or name the envelope carries.
C2_InboundUsesRegistry ==
    \A i \in 1..Len(log) :
        LET e == log[i]
            X == IF Prop(ArgsOf(e), "id") # JUndef THEN Prop(ArgsOf(e), "id")
                 ELSE Prop(ArgsOf(e), "penguin_id")
        IN  (/\ Qualifies(e)
             /\ e.direction = "in"
             /\ X.t = "number"
             /\ X \in DOMAIN e.pre.reg)
            => /\ Len(e.chat) = 1
               /\ e.chat[1].username =
                     (IF Truthy(e.pre.reg[X].nickname) THEN e.pre.reg[X].nickname
                      ELSE e.pre.reg[X].username)

\* Bob is registered with a nickname that differs from his username, and the
\* envelope names its sender inline
C2_Witness ==
    /\ Len(log) = 1
    /\ log[1].direction = "in"
    /\ IsEnvelope(log[1])
    /\ ActionOf(log[1]) = "send_message"
    /\ Prop(ArgsOf(log[1]), "penguin_id") = JNum(9)
    /\ Prop(ArgsOf(log[1]), "username") = JStr("inline")
    /\ JNum(9) \in DOMAIN log[1].pre.reg
    /\ log[1].pre.reg[JNum(9)].username = JStr("bob")
    /\ Len(log[1].chat) = 1
    /\ log[1].chat[1].username = JStr("Bobby")

\* the name an identity takes from the player object p
NameOf(p) ==
    IF Truthy(Prop(p, "username")) THEN Prop(p, "username")
    ELSE IF Truthy(Prop(p, "nickname")) THEN Prop(p, "nickname")
    ELSE JNull

\* the only member of a join_room envelope, a player object with an id
OnlyMember(e) ==
    /\ IsEnvelope(e)
    /\ ActionOf(e) = "join_room"
    /\ Prop(ArgsOf(e), "users").t = "array"
    /\ Len(Prop(ArgsOf(e), "users").v) = 1
    /\ Prop(ArgsOf(e), "users").v[1].t = "object"
    /\ Prop(Prop(ArgsOf(e), "users").v[1], "id").t = "number"

\* the player an auth-class envelope carries, with an id
AuthPlayer(e) ==
    IF Prop(ArgsOf(e), "user").t = "object" THEN Prop(ArgsOf(e), "user") ELSE ArgsOf(e)

CarriesAuth(e) ==
    /\ IsEnvelope(e)
    /\ ActionOf(e) \in {"login", "token_login", "game_auth", "load_player"}
    /\ Prop(AuthPlayer(e), "id").t = "number"

\* C3: with the session identity unset, a join_room that lists exactly one
\* member M sets the identity to M's id and name; an auth-class envelope
\* that carries a player always sets the identity to that player, a guessed
\* identity included; and a join_room never replaces an identity that is set.
C3_HeuristicIdentity ==
    \A i \in 1..Len(log) :
        LET e == log[i]
            M == Prop(ArgsOf(e), "users").v[1]
        IN  /\ (OnlyMember(e) /\ e.pre.ownId = JNull)
                => /\ e.post.ownId = Prop(M, "id")
                   /\ e.post.ownName = NameOf(M)
            /\ CarriesAuth(e)
                => /\ e.post.ownId = Prop(AuthPlayer(e), "id")
                   /\ e.post.ownName = NameOf(AuthPlayer(e))
            /\ (IsEnvelope(e) /\ ActionOf(e) = "join_room" /\ e.pre.ownId # JNull)
                => /\ e.post.ownId = e.pre.ownId
                   /\ e.post.ownName = e.pre.ownName

\* the identity guessed from a room of Bob alone is replaced by the login of
\* Sam
C3_Witness ==
    /\ Len(log) = 1
    /\ CarriesAuth(log[1])
    /\ log[1].est.set
    /\ log[1].est.by = "heuristic"
    /\ log[1].pre.ownId = JNum(9)
    /\ log[1].post.ownId = JNum(7)
    /\ log[1].post.ownName = JStr("sam")

\* C5: one envelope emits at most one ChatEvent, and exactly one when its
\* action is chat-classified and its text resolves non-empty; an envelope
\* that is not chat-classified emits none, and its state update is made.
C5_OneEventPerEnvelope ==
    \A i \in 1..Len(log) :
        LET e == log[i] IN
        IsEnvelope(e) =>
            /\ Len(e.chat) <= 1
            /\ Len(e.chat) = 1 <=> Qualifies(e)
            /\ CarriesAuth(e) => e.post.ownId = Prop(AuthPlayer(e), "id")
            /\ (ActionOf(e) = "join_room" /\ Prop(ArgsOf(e), "room") # JUndef)
                => e.post.room = Prop(ArgsOf(e), "room")
            /\ (ActionOf(e) = "add_player" /\ Prop(AuthPlayer(e), "id").t = "number")
                => Prop(AuthPlayer(e), "id") \in DOMAIN e.post.reg
            /\ (ActionOf(e) = "remove_player" /\ Prop(ArgsOf(e), "user").t = "number")
                => Prop(ArgsOf(e), "user") \notin DOMAIN e.post.reg

\* a remove_player emits no ChatEvent and takes the player out of the registry
C5_Witness ==
    /\ Len(log) = 1
    /\ IsEnvelope(log[1])
    /\ log[1].chat = <<>>
    /\ ActionOf(log[1]) = "remove_player"
    /\ JNum(7) \in DOMAIN log[1].pre.reg
    /\ JNum(7) \notin DOMAIN log[1].post.reg

---------------------------------------------------------------------------
(* Properties of the wrappers, over lastOp: the wrapped operation that    *)
(* has just run, the calls it made of the original operation, and         *)
(* whether an exception left it.                                          *)

WrappedOps == {"send", "listener", "encrypt", "decrypt"}

\* C4: every wrapped operation (send, a page's message listener, encrypt,
\* decrypt) calls the original exactly once with the argument it was given
\* and returns what the original returns, whether or not the handling of
\* the frame threw; the timer callback calls no host operation.
C4_ReadOnlyObserver ==
    /\ lastOp.op \in WrappedOps
        => /\ lastOp.origCalls = 1
           /\ lastOp.origArgs = <<lastOp.arg>>
           /\ lastOp.returnsOriginal
    /\ lastOp.op = "drain" => lastOp.origCalls = 0

\* send() of a frame whose handling throws (a join_room with a null member):
\* part of the state update was made, and the original send was called
C4_Witness ==
    /\ lastOp.op = "send"
    /\ lastOp.arg = EventFrame(Env("join_room",
                        JObj([room |-> JNum(100), users |-> JArr(<<JNull>>)])))
    /\ Len(log) = 1
    /\ log[1].pre.room = JNull
    /\ log[1].post.room = JNum(100)
    /\ log[1].players = <<>>
    /\ lastOp.origCalls = 1
    /\ lastOp.origArgs = <<lastOp.arg>>

MalformedFrames == MalformedPlaintexts \cup MalformedTextFrames \cup MalformedBinaryFrames

\* C6: a malformed frame (a plaintext that is no JSON or has no string
\* action, a text frame that has not the socket.io shape, a binary frame
\* that fails decoding or validation) emits no ChatEvent and leaves the
\* identity, the room and the registry as they were.
C6_MalformedIsDropped ==
    \A i \in 1..Len(log) :
        log[i].frame \in MalformedFrames
        => /\ log[i].chat = <<>>
           /\ log[i].players = <<>>
           /\ log[i].calls = <<>>
           /\ log[i].post = log[i].pre

\* the timer callback meets a truncated packet when an identity, a room and
\* a registry entry exist
C6_Witness ==
    /\ lastOp.op = "drain"
    /\ Len(log) = 1
    /\ log[1].frame = BinaryFrame(SubSeq(Encode(Packet("send_message", Hi)), 1, 20))
    /\ log[1].pre.ownId = JNum(7)
    /\ log[1].pre.room = JNum(100)
    /\ JNum(7) \in DOMAIN log[1].pre.reg
    /\ log[1].chat = <<>>
    /\ ownPlayerId = JNum(7) /\ currentRoomId = JNum(100)
    /\ playerRegistry = log[1].pre.reg

\* the well-formed frames of the inputs that carry a chat envelope with
\* non-empty text, for the deployment m
ChatFrames(m) ==
    {EventFrame(e) : e \in {Env("send_message", JObj([message |-> JStr("hi")])),
                            Env("send_message", Hi)}}
      \cup {MessageFrame(Env("send_message", Hi))}
      \cup (IF m = "newcp"
            THEN {Buffer(EnvelopeJSON(Env("send_message", Hi))),
                  Buffer(EnvelopeJSON(Env("send_message", JObj([message |-> JStr("hi")]))))}
            ELSE {BinaryFrame(Encode(Packet("message", EnvelopeJSON(Env("send_message", Hi))))),
                  BinaryFrame(Encode(Packet("send_message",
                                            JObj([message |-> JStr("yo")]))))})

\* C7: no exception leaves a wrapper or the timer callback, whatever the
\* frame; and a well-formed chat frame handled after malformed frames is
\* processed and emits its ChatEvent.
C7_NeverHalts ==
    /\ lastOp # Idle => ~lastOp.escaped
    /\ \A i \in 1..Len(log) :
          log[i].frame \in ChatFrames(mode)
          => /\ Len(log[i].chat) = 1
             /\ log[i].chat[1].eventName = "send_message"

\* after a malformed frame and a frame whose handling threw (it left the
\* room set and no identity), the timer callback emits the ChatEvent of a
\* binary chat frame
C7_Witness ==
    /\ malformedSeen = MaxMalformed
    /\ lastOp.op = "drain"
    /\ Len(log) = 1
    /\ log[1].frame \in ChatFrames("cpjourney")
    /\ log[1].pre.room = JNum(100)
    /\ log[1].pre.ownId = JNull
    /\ log[1].pre.reg = <<>>
    /\ Len(log[1].chat) = 1

---------------------------------------------------------------------------
(* Properties of the decoder, over dec and the frame lastOp describes:    *)
(* its kind, its length, and what the kind expects of it (the nesting     *)
(* depth, the entries declared, the value encoded).                       *)

Decoded == lastOp.op = "binary" /\ dec.status # "run"

\* C8: a buffer nested deeper than 10, or with a header that declares more
\* than 1000 entries, decodes to failure with no partial value; a frame of
\* more than 8192 bytes is dropped before any decoding; depth 10, 1000
\* entries and 8192 bytes are accepted.
C8_LimitsAbortDecode ==
    /\ dec.status = "fail" => dec.result = JNull
    /\ (Decoded /\ lastOp.kind = "depth")
        => IF lastOp.expect > 10 THEN dec.status = "fail"
           ELSE dec.status = "done" /\ dec.result.t \in {"array", "object"}
    /\ (Decoded /\ lastOp.kind = "entries")
        => IF lastOp.expect > 1000 THEN dec.status = "fail"
           ELSE dec.status = "done" /\ dec.result.t \in {"array", "object"}
    /\ (lastOp.op = "binary" /\ lastOp.length > 8192)
        => dec.status = "dropped" /\ dec.pos = 0
    /\ (lastOp.op = "binary" /\ lastOp.kind = "size" /\ lastOp.length <= 8192)
        => dec.status \in {"run", "done"}

\* the eleventh array header, met with ten arrays open
C8_Witness ==
    /\ lastOp.op = "binary"
    /\ lastOp.kind = "depth"
    /\ lastOp.expect = 11
    /\ dec.status = "fail"
    /\ dec.depth = 10
    /\ Len(dec.stack) = 10
    /\ dec.result = JNull

\* C9: the read position never exceeds the length of the buffer, and a
\* truncated buffer ends in the failure signal (null), no exception.
C9_PositionInBounds ==
    /\ dec.pos <= Len(dec.buf)
    /\ dec.status \in {"idle", "run", "done", "fail", "dropped"}
    /\ (Decoded /\ lastOp.kind = "truncated")
        => dec.status = "fail" /\ dec.result = JNull

\* a packet cut inside a string: the decoder stopped before the string,
\* with two maps and an array open
C9_Witness ==
    /\ lastOp.op = "binary"
    /\ lastOp.kind = "truncated"
    /\ dec.status = "fail"
    /\ dec.pos > 0
    /\ dec.pos < Len(dec.buf)
    /\ Len(dec.stack) = 3
    /\ dec.result = JNull

\* C10: the decode of the reference encoding of a value made of maps,
\* arrays, strings, integers, booleans and null is that value; the bytes
\* 82 A1 'a' 01 A1 'b' 02 decode to {a: 1, b: 2}.
C10_RoundTrip ==
    (Decoded /\ lastOp.kind \in {"roundtrip", "scenario"})
    => dec.status = "done" /\ dec.result = lastOp.expect

\* The scenario itself holds.
C10_Scenario ==
    (Decoded /\ lastOp.kind = "scenario")
    => dec.status = "done" /\ dec.result = JObj([a |-> JNum(1), b |-> JNum(2)])

---------------------------------------------------------------------------
(* Properties of the lexicon.                                             *)

\* a call of resolveRoomName has returned
Resolved(id) == lastOp.op = "resolveRoomName" /\ lastOp.id = id

\* C11, as the scenario states it: room id 2005 resolves to the igloo name of
\* offset 5, room id 100 to its table name "Town", and room id 12345 to the
\* placeholder "Room #12345".
C11_Scenario ==
    /\ Resolved(JNum(2005))  => lastOp.name = JStr("Igloo #5")
    /\ Resolved(JNum(100))   => lastOp.name = JStr("Town")
    /\ Resolved(JNum(12345)) => lastOp.name = JStr("Room #12345")

\* C11, amended: an id at or above the igloo offset 2000 resolves to the
\* igloo name of (id - 2000), so 2005 gives "Igloo #5" and 12345 gives
\* "Igloo #10345"; below it, an id of the table resolves to its table name
\* (100 gives "Town") and any other id n to the placeholder "Room #n" (1234
\* gives "Room #1234").
C11_RoomNames ==
    /\ Resolved(JNum(2005))  => lastOp.name = JStr("Igloo #5")
    /\ Resolved(JNum(100))   => lastOp.name = JStr("Town")
    /\ Resolved(JNum(999))   => lastOp.name = JStr("Sled Racing")
    /\ Resolved(JNum(12345)) => lastOp.name = JStr("Igloo #10345")
    /\ Resolved(JNum(1234))  => lastOp.name = JStr("Room #1234")
    /\ \A n \in {m \in -1..12345 : Resolved(JNum(m))} :
          /\ n >= 2000 => lastOp.name = JStr("Igloo #" \o ToString(n - 2000))
          /\ (n < 2000 /\ n \in RoomTableIds) =>
                /\ lastOp.name.t = "string"
                /\ lastOp.name \notin {JStr(""), JStr("Room #" \o ToString(n))}
          /\ (n < 2000 /\ n \notin RoomTableIds) =>
                lastOp.name = JStr("Room #" \o ToString(n))

\* room id 12345 has resolved to an igloo name
C11_Witness ==
    /\ Resolved(JNum(12345))
    /\ lastOp.name = JStr("Igloo #10345")

\* the emote or joke id of a logged envelope, and the table of its action
IdOf(e) == Prop(ArgsOf(e), IF ActionOf(e) = "send_emote" THEN "emote" ELSE "joke")

TableOf(e) == IF ActionOf(e) = "send_emote" THEN EMOTE_NAMES ELSE JOKE_TEXTS

\* the id is a key of the table, as a number or as its decimal string
InLexicon(e) ==
    \E n \in 1..Len(TableOf(e)) : IdOf(e) \in {JNum(n), JStr(ToString(n))}

KeyOf(e) == CHOOSE n \in 1..Len(TableOf(e)) : IdOf(e) \in {JNum(n), JStr(ToString(n))}

\* the text the design gives an emote or joke envelope
LexiconText(e) ==
    LET raw == IF Nullish(IdOf(e)) THEN "?" ELSE Str(IdOf(e)) IN
    IF ActionOf(e) = "send_emote"
    THEN IF InLexicon(e) THEN JStr("[Emote: " \o EMOTE_NAMES[KeyOf(e)] \o "]")
         ELSE JStr("[Emote #" \o raw \o "]")
    ELSE IF InLexicon(e) THEN JStr(JOKE_TEXTS[KeyOf(e)])
         ELSE JStr("[Joke #" \o raw \o "]")

IsLexiconEnvelope(e) == IsEnvelope(e) /\ ActionOf(e) \in {"send_emote", "send_joke"}

\* C12: a send_emote or send_joke envelope emits one ChatEvent; its message
\* is the table text when the id is in the lexicon, and otherwise the
\* bracketed placeholder with the raw id ("?" for a missing id), never an
\* empty string.
C12_LexiconPlaceholder ==
    \A i \in 1..Len(log) :
        LET e == log[i] IN
        IsLexiconEnvelope(e) =>
            /\ Len(e.chat) = 1
            /\ e.chat[1].message.t = "string"
            /\ e.chat[1].message.v # ""
            /\ e.chat[1].message = LexiconText(e)

\* the same, for the ids that name no property of Object.prototype
C12_OwnKeys ==
    \A i \in 1..Len(log) :
        LET e == log[i] IN
        (IsLexiconEnvelope(e) /\ Inherited(Str(IdOf(e))) = JUndef) =>
            /\ Len(e.chat) = 1
            /\ e.chat[1].message = LexiconText(e)
            /\ e.chat[1].message.v # ""

---------------------------------------------------------------------------
(* Properties of the msgpack queue.                                       *)

\* the frames waiting in the queue, and the frames of a sequence of log
\* entries, in order
QueuedFrames ==
    [i \in 1..Len(msgpackQueue) |->
        [bytes |-> msgpackQueue[i].buf, direction |-> msgpackQueue[i].direction]]

Handled(entries) ==
    [i \in 1..Len(entries) |->
        [bytes |-> entries[i].frame.bytes, direction |-> entries[i].direction]]

Range(f) == {f[i] : i \in DOMAIN f}

\* this step is a run of the timer callback
DrainStep == lastOp.op # "drain" /\ lastOp'.op = "drain"

\* C13: a binary frame enters the queue behind the frames that wait in it,
\* and a drain handles the frames of the queue in that order, each on the
\* session state the frame before it left, so that the envelope and the
\* ChatEvent of a frame queued earlier come first.
C13_ArrivalOrder ==
    [][/\ (msgpackQueue' # msgpackQueue /\ ~DrainStep) =>
             /\ Len(msgpackQueue') = Len(msgpackQueue) + 1
             /\ SubSeq(msgpackQueue', 1, Len(msgpackQueue)) = msgpackQueue
       /\ DrainStep =>
             /\ Handled(log') = QueuedFrames
             /\ \A i \in 1..Len(log') :
                   log'[i].pre = (IF i = 1 THEN Session ELSE log'[i - 1].post)
             /\ Len(log') > 0 => Session' = log'[Len(log')].post
      ]_vars

\* the room of Sam was queued before his message, and the drain resolved the
\* message by the room and the registry the first frame left
C13_Witness ==
    /\ lastOp.op = "drain"
    /\ Len(log) = 2
    /\ log[1].frame = JoinSam
    /\ log[2].frame = SaysHi
    /\ JNum(7) \notin DOMAIN log[1].pre.reg
    /\ Len(log[2].chat) = 1
    /\ log[2].chat[1].username = JStr("sam")
    /\ log[2].chat[1].room = JStr("Town")

\* the frames a binary frame of the model leaves in the queue
QueueItems ==
    {[bytes |-> f.bytes, direction |-> "in"] : f \in QueueFramesIn}
      \cup {[bytes |-> f.bytes, direction |-> "out"] : f \in QueueFramesOut}

\* a timer callback that is due can run: no cap of the model withholds it
DrainCanRun ==
    (lastOp = Idle /\ msgpackScheduled)
        => WithinCount(drainBatch(Session, established, msgpackQueue, documentTitle).st)

---------------------------------------------------------------------------
(* Properties of the ChatEvent and of the session state, over the log.    *)

NonEmptyString(x) == x.t = "string" /\ x.v # ""

\* the envelope names no sender that the session knows: no actor id in the
\* registry, no inline name, no identity
UnknownSender(e) ==
    /\ Prop(ArgsOf(e), "username") = JUndef
    /\ Prop(ArgsOf(e), "name") = JUndef
    /\ IF e.direction = "out" THEN e.pre.ownName = JNull
       ELSE Number(penguinIdOf(ArgsOf(e))) \notin DOMAIN e.pre.reg

\* the placeholder for an unknown sender: the synthesized name of the id that
\* is known (the session's own id outbound, the actor id inbound), else the
\* generic one
Placeholder(e) ==
    IF e.direction = "out"
    THEN IF e.pre.ownId # JNull THEN JStr("Penguin #" \o Str(e.pre.ownId))
         ELSE JStr("(you)")
    ELSE IF penguinIdOf(ArgsOf(e)) # JUndef
         THEN JStr("Penguin #" \o Str(penguinIdOf(ArgsOf(e))))
         ELSE JStr("(unknown)")

\* C15: every ChatEvent has a non-empty message and a non-empty username;
\* an unknown sender is named by a placeholder; and a chat envelope whose
\* text resolves empty emits nothing.
C15_NonEmptyEvent ==
    \A i \in 1..Len(log) :
        LET e == log[i] IN
        /\ \A j \in 1..Len(e.chat) :
              /\ NonEmptyString(e.chat[j].message)
              /\ NonEmptyString(e.chat[j].username)
              /\ UnknownSender(e) => e.chat[j].username = Placeholder(e)
        /\ (IsEnvelope(e) /\ ~Truthy(messageText(ActionOf(e), ArgsOf(e))))
              => e.chat = <<>>

\* C16: an envelope changes the session identity only if it is an
\* auth-class action that carries a player object with an id, or a join_room
\* that lists exactly one member while ownPlayerId is null.
C16_IdentityFrame ==
    \A i \in 1..Len(log) :
        LET e == log[i] IN
        (e.post.ownId # e.pre.ownId \/ e.post.ownName # e.pre.ownName) =>
            /\ IsEnvelope(e)
            /\ \/ /\ ActionOf(e) \in {"login", "token_login", "game_auth", "load_player"}
                  /\ Prop(AuthPlayer(e), "id") # JUndef
               \/ /\ ActionOf(e) = "join_room"
                  /\ Prop(ArgsOf(e), "users").t = "array"
                  /\ Len(Prop(ArgsOf(e), "users").v) = 1
                  /\ e.pre.ownId = JNull

\* a join_room that lists two members has left the unset identity unset, and
\* has registered both
C16_Witness ==
    /\ Len(log) = 1
    /\ IsEnvelope(log[1])
    /\ ActionOf(log[1]) = "join_room"
    /\ Prop(ArgsOf(log[1]), "users").t = "array"
    /\ Len(Prop(ArgsOf(log[1]), "users").v) = 2
    /\ log[1].pre.ownId = JNull
    /\ log[1].post.ownId = JNull
    /\ log[1].post.ownName = JNull
    /\ {JNum(7), JNum(9)} \subseteq DOMAIN log[1].post.reg

\* the room that a sequence of handled frames leaves, from the room r: the
\* room field of the last join_room envelope that carries one
RECURSIVE LastJoinedRoom(_, _)
LastJoinedRoom(entries, r) ==
    IF entries = <<>> THEN r
    ELSE LET e == Head(entries) IN
         LastJoinedRoom(Tail(entries),
                        IF IsEnvelope(e) /\ ActionOf(e) = "join_room"
                           /\ "room" \in DOMAIN ArgsOf(e).v
                        THEN ArgsOf(e).v.room ELSE r)

\* C17: currentRoomId starts null, and every step leaves it the room field
\* of the last join_room envelope handled in the step that carries one, or
\* as it was when the step handled none.
C17_RoomFollowsJoin ==
    /\ currentRoomId = JNull
    /\ [][currentRoomId' = LastJoinedRoom(log', currentRoomId)]_vars

\* a join_room without a room field was handled in room 100
C17_Witness ==
    /\ Len(log) = 1
    /\ IsEnvelope(log[1])
    /\ ActionOf(log[1]) = "join_room"
    /\ Prop(ArgsOf(log[1]), "room") = JUndef
    /\ log[1].pre.room = JNum(100)
    /\ currentRoomId = JNum(100)

\* the explicit room field of an envelope: args.room, else args.room_id
ExplicitRoom(e) ==
    IF "room" \in DOMAIN ArgsOf(e).v THEN ArgsOf(e).v.room
    ELSE IF "room_id" \in DOMAIN ArgsOf(e).v THEN ArgsOf(e).v.room_id
    ELSE JUndef

\* C18: the room of a ChatEvent is the display name of the envelope's
\* explicit room field if it has one, else the display name of currentRoomId
\* if that is set, else "(unknown)"; it is a display name, never a number
\* and never null.
C18_RoomPriority ==
    \A i \in 1..Len(log) :
        LET e == log[i] IN
        \A j \in 1..Len(e.chat) :
            /\ NonEmptyString(e.chat[j].room)
            /\ e.chat[j].room =
                  (IF ExplicitRoom(e) # JUndef THEN resolveRoomName(ExplicitRoom(e))
                   ELSE IF e.pre.room # JNull THEN resolveRoomName(e.pre.room)
                   ELSE JStr("(unknown)"))

\* the same, for envelopes whose explicit room field is not null and with
\* the title of the host page, when it has one, before "(unknown)"
C18_RoomOrTitle ==
    \A i \in 1..Len(log) :
        LET e == log[i] IN
        \A j \in 1..Len(e.chat) :
            ExplicitRoom(e) # JNull =>
                /\ NonEmptyString(e.chat[j].room)
                /\ e.chat[j].room =
                      (IF ExplicitRoom(e) # JUndef THEN resolveRoomName(ExplicitRoom(e))
                       ELSE IF e.pre.room # JNull THEN resolveRoomName(e.pre.room)
                       ELSE IF documentTitle # "" THEN JStr(documentTitle)
                       ELSE JStr("(unknown)"))

IsAuth(e) ==
    IsEnvelope(e) /\ ActionOf(e) \in {"login", "token_login", "game_auth", "load_player"}

\* C19: after an auth-class envelope whose player object (args.user, else
\* args) has the id X, ownPlayerId is X, ownUsername is the object's username,
\* else its nickname, and the registry holds X; an auth-class envelope whose
\* player object has no id changes neither the identity nor the registry.
C19_AuthSetsIdentity ==
    \A i \in 1..Len(log) :
        LET e == log[i]
            P == AuthPlayer(e)
        IN  IsAuth(e) =>
              IF Prop(P, "id").t = "number"
              THEN /\ e.post.ownId = Prop(P, "id")
                   /\ e.post.ownName = NameOf(P)
                   /\ Prop(P, "id") \in DOMAIN e.post.reg
              ELSE /\ e.post.ownId = e.pre.ownId
                   /\ e.post.ownName = e.pre.ownName
                   /\ e.post.reg = e.pre.reg

\* in the session of bob, a game_auth has carried at its root a player with
\* id 7 and a nickname only
C19_Witness ==
    /\ Len(log) = 1
    /\ IsAuth(log[1])
    /\ ArgsOf(log[1]) = Sammy
    /\ log[1].pre.ownId = JNum(9)
    /\ JNum(7) \notin DOMAIN log[1].pre.reg
    /\ ownPlayerId = JNum(7)
    /\ ownUsername = JStr("Sammy")
    /\ JNum(7) \in DOMAIN playerRegistry

\* the player object that an envelope upserts, when it upserts exactly one:
\* that of an auth-class action or an add_player, or the only member of a
\* join_room
Upserted(e) ==
    IF IsEnvelope(e) /\ ActionOf(e) = "join_room" THEN Prop(ArgsOf(e), "users").v[1]
    ELSE AuthPlayer(e)

UpsertsKnown(e) ==
    /\ \/ IsAuth(e)
       \/ IsEnvelope(e) /\ ActionOf(e) = "add_player"
       \/ OnlyMember(e)
    /\ Prop(Upserted(e), "id").t = "number"
    /\ Prop(Upserted(e), "id") \in DOMAIN e.pre.reg

\* C20: the upsert of a player object for an id that the registry holds
\* overwrites the stored username only with a non-empty incoming username,
\* and the stored nickname only with a non-empty incoming nickname; a field
\* that is empty or missing leaves the stored value of that field.
C20_MergeUpsert ==
    \A i \in 1..Len(log) :
        LET e == log[i]
            P == Upserted(e)
            X == Prop(P, "id")
        IN  UpsertsKnown(e) =>
              /\ e.post.reg[X].username =
                    (IF Truthy(Prop(P, "username")) THEN Prop(P, "username")
                     ELSE e.pre.reg[X].username)
              /\ e.post.reg[X].nickname =
                    (IF Truthy(Prop(P, "nickname")) THEN Prop(P, "nickname")
                     ELSE e.pre.reg[X].nickname)

\* the same, with the other incoming name standing in for a field that is
\* empty or missing, before the stored value
C20_MergeCrossField ==
    \A i \in 1..Len(log) :
        LET e == log[i]
            P == Upserted(e)
            X == Prop(P, "id")
        IN  UpsertsKnown(e) =>
              /\ e.post.reg[X].username =
                    (IF Truthy(Prop(P, "username")) THEN Prop(P, "username")
                     ELSE IF Truthy(Prop(P, "nickname")) THEN Prop(P, "nickname")
                     ELSE e.pre.reg[X].username)
              /\ e.post.reg[X].nickname =
                    (IF Truthy(Prop(P, "nickname")) THEN Prop(P, "nickname")
                     ELSE IF Truthy(Prop(P, "username")) THEN Prop(P, "username")
                     ELSE e.pre.reg[X].nickname)


\* a remove_player envelope for a player that the registry holds
RemovesKnown(e) ==
    /\ IsEnvelope(e)
    /\ ActionOf(e) = "remove_player"
    /\ Prop(ArgsOf(e), "user").t = "number"
    /\ Prop(ArgsOf(e), "user") \in DOMAIN e.pre.reg

\* C21: after a remove_player envelope for a registered player X, X is no
\* longer in the registry, and the removal notification dispatched for that
\* envelope carries the display name X had in the registry (its nickname,
\* else its username).
C21_RemovalKeepsName ==
    \A i \in 1..Len(log) :
        LET e == log[i]
            X == Prop(ArgsOf(e), "user")
        IN  RemovesKnown(e) =>
              /\ X \notin DOMAIN e.post.reg
              /\ Len(e.players) = 1
              /\ e.players[1].type = "remove"
              /\ e.players[1].player.id = X
              /\ e.players[1].player.username = lookupUsername(e.pre.reg, X)

\* the same, with the name the notification does carry: the placeholder
\* built from the id, since the lookup follows the eviction
C21_RemovalIsAnonymous ==
    \A i \in 1..Len(log) :
        LET e == log[i]
            X == Prop(ArgsOf(e), "user")
        IN  RemovesKnown(e) =>
              /\ X \notin DOMAIN e.post.reg
              /\ Len(e.players) = 1
              /\ e.players[1].type = "remove"
              /\ e.players[1].player.id = X
              /\ e.players[1].player.username = JStr("Penguin #" \o Str(X))


\* the messageCount of player k in registry reg, 0 for a player it lacks
CountOf(reg, k) == IF k \in DOMAIN reg THEN reg[k].messageCount ELSE 0

VisitedBy(reg, k) == IF k \in DOMAIN reg THEN reg[k].roomsVisited ELSE {}

\* C23: after an add_player envelope whose player object has the id X,
\* handled while currentRoomId is a room R, the registry holds X and R is in
\* X's roomsVisited; and a room is recorded for a player only as the current
\* room of the envelope that records it, never while currentRoomId is null,
\* and stays recorded as long as the player is registered.
C23_VisitsCurrentRoom ==
    \A i \in 1..Len(log) :
        LET e == log[i]
            X == Prop(AuthPlayer(e), "id")
        IN  /\ (/\ IsEnvelope(e)
                /\ ActionOf(e) = "add_player"
                /\ X.t = "number"
                /\ e.pre.room # JNull)
               => /\ X \in DOMAIN e.post.reg
                  /\ e.post.room = e.pre.room
                  /\ e.pre.room \in e.post.reg[X].roomsVisited
            /\ \A k \in DOMAIN e.post.reg :
                  /\ VisitedBy(e.pre.reg, k) \subseteq e.post.reg[k].roomsVisited
                  /\ (e.post.reg[k].roomsVisited \ VisitedBy(e.pre.reg, k))
                        \subseteq ({e.post.room} \ {JNull})
                  /\ JNull \notin e.post.reg[k].roomsVisited

\* Bob, seen before in igloo 2005, is added to room 100
C23_Witness ==
    /\ Len(log) = 1
    /\ IsEnvelope(log[1])
    /\ ActionOf(log[1]) = "add_player"
    /\ Prop(AuthPlayer(log[1]), "id") = JNum(9)
    /\ log[1].pre.room = JNum(100)
    /\ VisitedBy(log[1].pre.reg, JNum(9)) = {JNum(2005)}
    /\ playerRegistry[JNum(9)].roomsVisited = {JNum(100), JNum(2005)}


\* the [eventName, payload] that a frame of the two transports carries
PairOf(frame) == CHOOSE p \in CarriedPairs : frame \in {AsText(p), AsBinary(p)}

\* the envelope of [eventName, payload]: the payload's action and args when
\* the event is "message" and the action is a string, else the pair itself
EnvelopeOf(p) ==
    IF p.eventName = "message" /\ TypeOf(Prop(p.payload, "action")) = "string"
    THEN Env(Prop(p.payload, "action").v, Or(Prop(p.payload, "args"), EmptyObj))
    ELSE Env(p.eventName, p.payload)

\* the frame of log entry e was handled as the envelope env is, from the
\* same session: the same call, the same state left, the same ChatEvent
HandledAs(e, env, r) ==
    /\ e.calls = <<[action |-> env.action, args |-> env.args, direction |-> e.direction]>>
    /\ e.post = r.st
    /\ e.chat = r.chat

SameAsEnvelope(e) ==
    LET env == EnvelopeOf(PairOf(e.frame)) IN
    HandledAs(e, env,
              handleYukonAction(e.pre, env.action, env.args, e.direction, documentTitle))

\* C24: a text frame and a binary frame that carry the same [eventName,
\* payload], with a payload object, are handled as the same envelope,
\* (payload.action, payload.args or {}) when eventName is "message" and the
\* payload has a string action, else (eventName, payload): the same change
\* of the session state and the same ChatEvent.
C24_TransportsAgree ==
    \A i \in 1..Len(log) :
        log[i].frame \in TransportFrames => SameAsEnvelope(log[i])

\* the same, for the binary frames that decodeMsgpack decodes to the packet
\* they encode
C24_AgreeWhenDecoded ==
    \A i \in 1..Len(log) :
        LET e == log[i] IN
        (/\ e.frame \in TransportFrames
         /\ e.frame.t = "arraybuffer"
               => decodeMsgpack(e.frame.bytes)
                     = Packet(PairOf(e.frame).eventName, PairOf(e.frame).payload))
        => SameAsEnvelope(e)

\* the binary frames that are not decoded to the packet they encode
C24_Undecoded ==
    {p \in CarriedPairs :
        decodeMsgpack(AsBinary(p).bytes) # Packet(p.eventName, p.payload)}
           = {TooDeepPair, Int64Pair}


\* the shape of a text frame: a string that starts with "42", then either
\* the array or a namespace closed by a comma, then a JSON array whose
\* first element is a string
MatchesShape(frame) ==
    /\ frame.t = "string"
    /\ frame.length >= 3
    /\ frame.c0 = "4" /\ frame.c1 = "2"
    /\ frame.nsp # "nocomma"
    /\ frame.json.t = "array"
    /\ Len(frame.json.v) >= 1
    /\ frame.json.v[1].t = "string"

ParsedText == lastOp.op = "parseText"

\* C25, as it reads: the text-frame parser returns "not a match" for every
\* input that deviates from the shape, and for every frame of the shape the
\* first element of the array as event name and the second element, or an
\* empty object when there is none, as payload.
C25_SecondElement ==
    ParsedText =>
        LET arr == lastOp.frame.json IN
        IF MatchesShape(lastOp.frame)
        THEN lastOp.result =
                JObj([eventName |-> arr.v[1],
                      payload   |-> IF Len(arr.v) >= 2 THEN arr.v[2] ELSE EmptyObj])
        ELSE lastOp.result = JNull

\* C25: the text-frame parser returns "not a match" for every input that
\* deviates from the shape, and for every frame of the shape the first
\* element of the array as event name and, as payload, the second element
\* when there is one that is not null, false, 0 or "", else an empty object.
C25_TextParser ==
    ParsedText =>
        LET arr == lastOp.frame.json IN
        IF MatchesShape(lastOp.frame)
        THEN lastOp.result =
                JObj([eventName |-> arr.v[1],
                      payload   |-> IF Len(arr.v) >= 2 /\ Truthy(arr.v[2]) THEN arr.v[2]
                                    ELSE EmptyObj])
        ELSE lastOp.result = JNull

\* 42/nsp,["send_message", null] has been parsed to the payload {}
C25_Witness ==
    /\ ParsedText
    /\ MatchesShape(lastOp.frame)
    /\ lastOp.frame.nsp = "comma"
    /\ lastOp.frame.json = JArr(<<JStr("send_message"), JNull>>)
    /\ lastOp.result = JObj([eventName |-> JStr("send_message"), payload |-> EmptyObj])


ParsedBinary == lastOp.op = "parseBinary"

\* the decoded value is a mapping of the event type whose data field is a
\* sequence of at least two elements
IsEventPacket(packet) ==
    /\ packet.t = "object"
    /\ Prop(packet, "type") = JNum(2)
    /\ Prop(packet, "data").t = "array"
    /\ Len(Prop(packet, "data").v) >= 2

\* C26: the binary-frame parser yields a pair only when the decoded value is
\* a mapping of the event type whose data field is a sequence of at least
\* two elements with a string first element, and the pair is then the first
\* two elements; a decode failure, a value that is no such mapping, a
\* control packet, or a data field of fewer than two elements yields "not a
\* match", and a queued frame that is no match is dropped with the handler
\* not called and nothing changed or dispatched.
C26_BinaryParser ==
    /\ ParsedBinary =>
          LET packet == lastOp.packet
              data   == Prop(packet, "data")
          IN  /\ lastOp.result # JNull =>
                    /\ IsEventPacket(packet)
                    /\ data.v[1].t = "string"
                    /\ lastOp.result = JObj([eventName |-> data.v[1],
                                             payload   |-> data.v[2]])
              /\ ~IsEventPacket(packet) => lastOp.result = JNull
    /\ \A i \in 1..Len(log) :
          LET e == log[i] IN
          (e.frame \in ParserBinaryFrames
             /\ parseMsgpackSocketIOFrame(e.frame.bytes) = JNull)
          => /\ e.calls = <<>>
             /\ e.post = e.pre
             /\ e.chat = <<>>
             /\ e.players = <<>>

\* the packet {type: 2, data: ["send_message", {id: 7, message: "hi"}, 1]}
\* has been parsed to the pair of its first two elements
C26_Witness ==
    /\ ParsedBinary
    /\ IsEventPacket(lastOp.packet)
    /\ Len(Prop(lastOp.packet, "data").v) = 3
    /\ lastOp.result = JObj([eventName |-> JStr("send_message"), payload |-> Hi])


\* C27: the decode of a 64-bit integer, unsigned (tag 0xcf) or signed (tag
\* 0xd3), is the double nearest to the integer encoded.
C27_Int64Value ==
    (Decoded /\ lastOp.kind \in {"uint64", "int64"})
    => dec.status = "done" /\ dec.result = lastOp.expect

\* the same for the unsigned integers alone
C27_UInt64Value ==
    (Decoded /\ lastOp.kind = "uint64")
    => dec.status = "done" /\ dec.result = lastOp.expect

\* every signed 64-bit integer decodes to 0
C27_Int64IsZero ==
    (Decoded /\ lastOp.kind = "int64")
    => dec.status = "done" /\ dec.result = JNum(0) /\ dec.pos = Len(dec.buf)


\* a readMap or readArr in progress has run its loop fewer times than the
\* entry count its header declared, which is within the cap
WithinDeclared(f) ==
    /\ f.n <= MAX_COLLECTION
    /\ IF f.kind = "arr" THEN Len(f.items) < f.n ELSE f.i < f.n

\* C28: decodeMsgpack terminates on every buffer: each call of read()
\* consumes at least one byte or aborts the decode, the readMap/readArr
\* calls in progress never number more than MAX_DEPTH, none runs its loop
\* more often than the entry count it declared, at most MAX_COLLECTION, and
\* every decode in progress comes to its end.
C28_DecoderTerminates ==
    /\ [](Len(dec.stack) = dec.depth /\ dec.depth <= MAX_DEPTH)
    /\ [](\A i \in 1..Len(dec.stack) : WithinDeclared(dec.stack[i]))
    /\ [][dec.status = "run" =>
            (dec'.status = "fail" \/ (dec'.pos > dec.pos /\ dec'.pos <= Len(dec.buf)))]_vars
    /\ (dec.status = "run" ~> dec.status \in {"done", "fail"})

\* ten arrays are open, and the innermost, which declared 1000 entries, has
\* one more to read
C28_Witness ==
    /\ dec.status = "run"
    /\ Len(dec.stack) = MAX_DEPTH
    /\ dec.stack[MAX_DEPTH].n = MAX_COLLECTION
    /\ Len(dec.stack[MAX_DEPTH].items) = MAX_COLLECTION - 1
    /\ dec.pos = Len(dec.buf) - 1

---------------------------------------------------------------------------
(* Properties of the debug buffers, against the script of the session.    *)

DirectionOf(op) == IF op = "decrypt" THEN "in" ELSE "out"

\* the k-th operation of the script carries an envelope
CarriesEnvelope(k) == k % 5 # 0

\* the k-th operation of the script passes through a crypto hook
CarriesPlaintext(k) == Arrival(k).op \in {"decrypt", "encrypt"}

\* every action the first n operations dispatched, oldest first
EventsArrived(n) ==
    LET all == [k \in 1..n |->
                   [ts |-> k, event |-> Ping(k).action,
                    direction |-> DirectionOf(Arrival(k).op)]]
    IN  SelectSeq(all, LAMBDA e : CarriesEnvelope(e.ts))

\* the plaintext of the k-th operation as the buffer keeps it
KeptText(k) ==
    LET buf == Arrival(k).data
    IN  [t      |-> "string",
         length |-> IF buf.length > TEXT_CAP THEN TEXT_CAP ELSE buf.length,
         json   |-> IF buf.length > TEXT_CAP THEN SyntaxError ELSE buf.json]

\* every plaintext the first n operations passed, oldest first
TextsArrived(n) ==
    LET ks == SelectSeq([k \in 1..n |-> k], CarriesPlaintext)
    IN  [i \in 1..Len(ks) |-> [dir |-> DirectionOf(Arrival(ks[i]).op), text |-> KeptText(ks[i])]]

\* the newest cap entries of seq, in their order
Newest(seq, cap) ==
    IF Len(seq) <= cap THEN seq ELSE SubSeq(seq, Len(seq) - cap + 1, Len(seq))

\* C29: after any sequence of frames the debug action buffer holds at most
\* 500 entries and the recent-plaintext buffer at most 200, and each holds
\* exactly the most recent entries that arrived, in the order of arrival.
C29_RingBuffers ==
    /\ Len(debug.events) <= EVENTS_CAP
    /\ Len(debug.decrypted) <= DECRYPTED_CAP
    /\ debug.events = Newest(EventsArrived(debug.now), EVENTS_CAP)
    /\ debug.decrypted = Newest(TextsArrived(debug.now), DECRYPTED_CAP)

\* both buffers are full and have dropped entries: more actions and more
\* plaintexts have arrived than the caps, and the oldest of each is gone
C29_Witness ==
    /\ Len(debug.events) = EVENTS_CAP
    /\ Len(debug.decrypted) = DECRYPTED_CAP
    /\ Len(EventsArrived(debug.now)) > EVENTS_CAP
    /\ Len(TextsArrived(debug.now)) > DECRYPTED_CAP
    /\ debug.events[1].ts > 1
    /\ debug.events[EVENTS_CAP].ts = debug.now
    /\ debug.decrypted[1].text.json # Arrival(1).data.json
    /\ \E i \in 1..DECRYPTED_CAP : debug.decrypted[i].text.length = TEXT_CAP

---------------------------------------------------------------------------
(* The outbound chat of a session that has no identity yet.                *)

\* an outbound chat envelope that names its sender in no way
Anonymous(e) ==
    /\ Qualifies(e)
    /\ e.direction = "out"
    /\ penguinIdOf(ArgsOf(e)) = JUndef
    /\ Prop(ArgsOf(e), "username") = JUndef
    /\ Prop(ArgsOf(e), "name") = JUndef

\* the step handled an anonymous outbound chat while no identity was established
Placeheld == \E i \in 1..Len(log) : Anonymous(log[i]) /\ ~log[i].est.set

\* the event of such an envelope: "(you)" and no player id; the envelope
\* leaves the session as it was and its wrapper returns as for any frame
PlaceholderEvent ==
    \A i \in 1..Len(log) :
        LET e == log[i] IN
        (Anonymous(e) /\ ~e.est.set) =>
            /\ Len(e.chat) = 1
            /\ e.chat[1].username = JStr("(you)")
            /\ e.chat[1].playerId = JNull
            /\ e.chat[1].message = messageText(ActionOf(e), ArgsOf(e))
            /\ e.post = e.pre
            /\ ~lastOp.escaped
            /\ lastOp.origCalls = 1

\* the event of an anonymous outbound chat of an established, named identity
NamedEvent ==
    \A i \in 1..Len(log) :
        LET e == log[i] IN
        (Anonymous(e) /\ e.est.set /\ Truthy(e.est.name)) =>
            /\ Len(e.chat) = 1
            /\ e.chat[1].username = e.est.name
            /\ e.chat[1].playerId = e.est.id

\* C30: an outbound chat envelope with no actor id and no inline username or
\* name, handled while no session identity is established, emits a ChatEvent
\* named "(you)" with playerId null and changes nothing else; the frames
\* after it are handled as ever, and from the envelope that establishes a
\* named identity on, the outbound events carry that username.
C30_PlaceholderThenName ==
    /\ []PlaceholderEvent
    /\ [](Placeheld => []NamedEvent)
    /\ [][Placeheld => (lastOp' = Idle /\ Session' = Session /\ ~established'.set)]_vars

\* in a room joined with Sam and Bob, which establishes no identity, the
\* outbound send_message {message: "hi"} was emitted as "(you)"
C30_Witness ==
    /\ Len(log) = 1
    /\ log[1].calls = <<[action |-> "send_message",
                         args |-> JObj([message |-> JStr("hi")]), direction |-> "out"]>>
    /\ ~log[1].est.set
    /\ {JNum(7), JNum(9)} \subseteq DOMAIN log[1].pre.reg
    /\ log[1].pre.room # JNull
    /\ Len(log[1].chat) = 1
    /\ log[1].chat[1].username = JStr("(you)")
    /\ log[1].chat[1].playerId = JNull
    /\ ownPlayerId = JNull

---------------------------------------------------------------------------
(* Properties of the content script.                                       *)

\* the records of seq that stem from chat event number e
OfEvent(seq, e) == SelectSeq(seq, LAMBDA r : r.event = e)

\* C31: a chat event that is delivered to the panel more than once, because
\* several interception layers fired for it, is persisted once and rendered
\* once.
C31_OneRowPerEvent ==
    \A e \in 1..MaxEvents :
        /\ Len(OfEvent(panel.store, e)) <= 1
        /\ Len(OfEvent(panel.rows, e)) <= 1

\* two rows of one chat event were stamped in different seconds
C31_TwiceAcrossSeconds ==
    \A i, j \in 1..Len(panel.rows) :
        (i < j /\ panel.rows[i].event = panel.rows[j].event)
        => panel.rows[i].timestamp \div SECOND < panel.rows[j].timestamp \div SECOND

\* the step is a dbPut that brings the store above MAX_MESSAGES records
PutAbove == panel'.nextId = panel.nextId + 1 /\ Len(panel.store) = MAX_MESSAGES

\* C32: a dbPut that brings the store above MAX_MESSAGES records leaves the
\* newest MAX_MESSAGES records, the one just added among them: it deletes
\* the count - MAX_MESSAGES records of the oldest timestamps.
C32_PruneKeepsNewest ==
    [][PutAbove =>
         /\ Len(panel'.store) = MAX_MESSAGES
         /\ panel'.store[MAX_MESSAGES].id = panel.nextId
         /\ panel'.store[MAX_MESSAGES].timestamp = panel.now
         /\ \A i \in 1..(MAX_MESSAGES - 1) : panel'.store[i] = panel.store[i + 1]]_vars

\* such a dbPut leaves the store empty, and the record is rendered
C32_PruneEmpties ==
    [][PutAbove => (panel'.store = <<>> /\ Len(panel'.rows) = Len(panel.rows) + 1)]_vars

\* a dbPut that does not bring the store above the cap only adds its record
C32_PutBelow ==
    [][(panel'.nextId = panel.nextId + 1 /\ Len(panel.store) < MAX_MESSAGES)
         => (/\ Len(panel'.store) = Len(panel.store) + 1
             /\ SubSeq(panel'.store, 1, Len(panel.store)) = panel.store)]_vars

---------------------------------------------------------------------------
(* The id and the name of a ChatEvent.                                     *)

\* the names session st knows player k by: those of its registry entry,
\* unless they are the placeholder registerPlayer made up, and the session's
\* own name when k is the session's own id
NamesOf(st, k) ==
    ((IF k \in DOMAIN st.reg THEN {st.reg[k].username, st.reg[k].nickname} ELSE {})
        \ {JStr("Penguin #" \o Str(k))})
    \cup (IF k = st.ownId /\ Truthy(st.ownName) THEN {st.ownName} ELSE {})

\* the players st knows: the registered ones and the session's own
KnownPlayers(st) == DOMAIN st.reg \cup (IF st.ownId = JNull THEN {} ELSE {st.ownId})

\* event c, emitted in session st, names the player whose id it carries: by
\* one of that player's names, or by the placeholder of that id, if st knows
\* a name, and by no other player's name
NamesItsPlayer(st, c) ==
    /\ NamesOf(st, c.playerId) # {}
         => c.username \in NamesOf(st, c.playerId)
                              \cup {JStr("Penguin #" \o Str(c.playerId))}
    /\ \A k \in KnownPlayers(st) \ {c.playerId} :
          c.username \in NamesOf(st, k) => c.username \in NamesOf(st, c.playerId)

\* C33: a ChatEvent with a non-null playerId carries the name of that same
\* player, never the id of one player and the name of another, and the
\* messageCount that its envelope increments is that player's.
C33_NameMatchesId ==
    \A i \in 1..Len(log) :
        LET e == log[i] IN
        \A j \in 1..Len(e.chat) :
            e.chat[j].playerId # JNull =>
                /\ NamesItsPlayer(e.post, e.chat[j])
                /\ \A k \in DOMAIN e.post.reg :
                      e.post.reg[k].messageCount # CountOf(e.pre.reg, k)
                      => k = e.chat[j].playerId

\* the same for the inbound events whose envelope carries an actor id, and
\* for the outbound events of a named session whose envelope carries none or
\* the session's own
C33_MatchesUnlessForeignId ==
    \A i \in 1..Len(log) :
        LET e == log[i] IN
        \A j \in 1..Len(e.chat) :
            (/\ e.chat[j].playerId # JNull
             /\ IF e.direction = "in" THEN penguinIdOf(ArgsOf(e)) # JUndef
                ELSE /\ Truthy(e.pre.ownName)
                     /\ \/ penguinIdOf(ArgsOf(e)) = JUndef
                        \/ Number(penguinIdOf(ArgsOf(e))) = e.pre.ownId)
            => NamesItsPlayer(e.post, e.chat[j])

\* in the session of sam (7), with Bob (9) registered, an outbound chat
\* envelope with actor id 9 is emitted under the name "sam" with playerId 9,
\* and is counted for Bob
C33_ForeignId ==
    \A i \in 1..Len(log) :
        LET e == log[i] IN
        (/\ Qualifies(e) /\ e.direction = "out"
         /\ e.pre.ownId = JNum(7) /\ e.pre.ownName = JStr("sam")
         /\ JNum(9) \in DOMAIN e.pre.reg
         /\ penguinIdOf(ArgsOf(e)) = JNum(9))
        => /\ Len(e.chat) = 1
           /\ e.chat[1].username = JStr("sam")
           /\ e.chat[1].playerId = JNum(9)
           /\ e.post.reg[JNum(9)].messageCount = e.pre.reg[JNum(9)].messageCount + 1

\* an inbound chat envelope without an actor id is emitted as "(unknown)",
\* or under its inline name, with the session's own id
C33_InboundOwnId ==
    \A i \in 1..Len(log) :
        LET e == log[i] IN
        (/\ Qualifies(e) /\ e.direction = "in"
         /\ penguinIdOf(ArgsOf(e)) = JUndef
         /\ e.pre.ownId # JNull)
        => /\ Len(e.chat) = 1
           /\ e.chat[1].playerId = Number(e.pre.ownId)
           /\ e.chat[1].username =
                 Or(Or(Prop(ArgsOf(e), "username"), Prop(ArgsOf(e), "name")),
                    JStr("(unknown)"))

---------------------------------------------------------------------------
(* Properties of the hooked socket, over lastOp: the message event that    *)
(* was dispatched, the functions of the page it invoked, and those an      *)
(* unhooked socket would have invoked.                                     *)

RECURSIVE ChatEvents(_)
\* the number of ChatEvents the entries record
ChatEvents(entries) ==
    IF entries = <<>> THEN 0 ELSE Len(Head(entries).chat) + ChatEvents(Tail(entries))

MessageDispatched == lastOp # Idle /\ lastOp.op = "message"

\* C34: a message event of the socket is ingested exactly once, with one
\* state update and at most one ChatEvent, however many handlers the page
\* has registered through addEventListener and the onmessage setter.
C34_IngestedOnce ==
    (MessageDispatched /\ lastOp.unhooked # <<>>)
    => /\ lastOp.handled = 1
       /\ Len(log) + lastOp.queued = 1
       /\ ChatEvents(log) <= 1

\* the frame is handled once for each wrapper the socket holds
C34_OncePerWrapper ==
    MessageDispatched
    => /\ lastOp.handled = Len(Callbacks(socket.listeners, socket.onmessage))
       /\ Len(log) + lastOp.queued = lastOp.handled

\* C38: a message event invokes the functions of the page that it would
\* invoke on a socket without the hook: not a listener the page has
\* removed, and once a listener the page has registered twice.
C38_SameListenersRun ==
    MessageDispatched => lastOp.invoked = lastOp.unhooked

\* no call of the page takes a wrapper off the list of listeners, and each
\* addEventListener puts one on
C38_WrappersStay ==
    [][/\ Len(socket'.listeners) >= Len(socket.listeners)
       /\ SubSeq(socket'.listeners, 1, Len(socket.listeners)) = socket.listeners
       /\ socket'.wrappers > socket.wrappers /\ socket'.onmessage = socket.onmessage
            => Len(socket'.listeners) = Len(socket.listeners) + 1]_vars

\* every function the unhooked socket would invoke is invoked
C38_NoneLost ==
    MessageDispatched
    => \A i \in 1..Len(lastOp.unhooked) :
          \E j \in 1..Len(lastOp.invoked) : lastOp.invoked[j] = lastOp.unhooked[i]

---------------------------------------------------------------------------
(* The order of text frames and binary frames.                             *)

\* the operation in progress has handled a text frame that carried an envelope
TextHandled ==
    /\ lastOp # Idle
    /\ lastOp.op \in {"listener", "send"}
    /\ lastOp.arg.t = "string"
    /\ Len(log) = 1
    /\ IsEnvelope(log[1])

\* C35: envelopes are applied in the order in which their frames arrived,
\* whatever the representation: no text frame is handled while a binary
\* frame that arrived before it in the same direction still waits for its
\* decode.
C35_ArrivalOrder ==
    TextHandled
    => \A i \in 1..Len(msgpackQueue) : msgpackQueue[i].direction # log[1].direction

\* a text frame is handled within the operation that carries it, on the
\* session as it is, and leaves the queue of binary frames as it was
C35_TextAtOnce ==
    [][(lastOp = Idle /\ lastOp' # Idle /\ lastOp'.op \in {"listener", "send"}
          /\ lastOp'.arg.t = "string")
       => (/\ msgpackQueue' = msgpackQueue
           /\ Len(log') = 1
           /\ log'[1].pre = Session)]_vars

---------------------------------------------------------------------------
(* The identity that the one-member heuristic sets.                        *)

\* a join_room envelope whose list has exactly one member, a player object
OneMember(e) ==
    /\ IsEnvelope(e)
    /\ ActionOf(e) = "join_room"
    /\ Prop(ArgsOf(e), "users").t = "array"
    /\ Len(Prop(ArgsOf(e), "users").v) = 1
    /\ Prop(ArgsOf(e), "users").v[1].t = "object"

TheMember(e) == Prop(ArgsOf(e), "users").v[1]

\* C36: ownPlayerId, when it is not null, is the numeric id of a player
\* object that carried one: a join_room whose only member has no id leaves
\* the unset identity unset, id and name, so that a later one-member
\* join_room can still establish it.
C36_IdentityHasId ==
    /\ ownPlayerId # JNull => ownPlayerId.t = "number"
    /\ \A i \in 1..Len(log) :
          LET e == log[i] IN
          (OneMember(e) /\ Prop(TheMember(e), "id") = JUndef /\ e.pre.ownId = JNull)
          => (e.post.ownId = JNull /\ e.post.ownName = JNull)

\* such a join_room sets ownPlayerId to NaN and ownUsername to the name of
\* the member, and registers nobody
C36_IdlessMemberSetsNaN ==
    \A i \in 1..Len(log) :
        LET e == log[i] IN
        (OneMember(e) /\ Prop(TheMember(e), "id") = JUndef /\ e.pre.ownId = JNull)
        => /\ e.post.ownId = JNaN
           /\ e.post.ownName = NameOf(TheMember(e))
           /\ e.post.reg = e.pre.reg

\* with ownPlayerId NaN, a join_room whose only member has an id registers
\* the member and leaves the identity as it is
C36_NaNBlocksHeuristic ==
    \A i \in 1..Len(log) :
        LET e == log[i] IN
        (OneMember(e) /\ Prop(TheMember(e), "id") # JUndef /\ e.pre.ownId = JNaN)
        => /\ e.post.ownId = JNaN
           /\ e.post.ownName = e.pre.ownName
           /\ Number(Prop(TheMember(e), "id")) \in DOMAIN e.post.reg

\* ownPlayerId is null, NaN or a number; it is NaN only through the
\* heuristic, on a member without an id
C36_NaNOnlyByHeuristic ==
    /\ ownPlayerId = JNull \/ ownPlayerId = JNaN \/ ownPlayerId.t = "number"
    /\ \A i \in 1..Len(log) :
          LET e == log[i] IN
          (e.post.ownId = JNaN /\ e.pre.ownId # JNaN)
          => (OneMember(e) /\ Prop(TheMember(e), "id") = JUndef /\ e.pre.ownId = JNull)

---------------------------------------------------------------------------
(* Envelopes whose handling fails.                                         *)

\* the handling of the envelope of e threw
Failed(e) ==
    /\ IsEnvelope(e)
    /\ handleYukonAction(e.pre, ActionOf(e), ArgsOf(e), e.direction, documentTitle).threw

\* C37: an envelope whose handling fails partway, such as a join_room with
\* a null entry in its member list, leaves currentRoomId, the session
\* identity and the registry exactly as they were before it.
C37_FailureIsAtomic ==
    \A i \in 1..Len(log) : Failed(log[i]) => log[i].post = log[i].pre

\* a failing envelope leaves the identity as it was and emits nothing
C37_FailureKeepsIdentity ==
    \A i \in 1..Len(log) :
        LET e == log[i] IN
        Failed(e) => /\ e.post.ownId = e.pre.ownId
                     /\ e.post.ownName = e.pre.ownName
                     /\ e.chat = <<>>
                     /\ e.players = <<>>

\* a failing join_room has set the room it carries, and has registered the
\* members listed before the entry that made it fail, each with that room
C37_PartialJoin ==
    \A i \in 1..Len(log) :
        LET e     == log[i]
            users == Prop(ArgsOf(e), "users").v
        IN  (Failed(e) /\ ActionOf(e) = "join_room") =>
               /\ Prop(ArgsOf(e), "room") # JUndef => e.post.room = Prop(ArgsOf(e), "room")
               /\ \A j \in 1..Len(users) :
                     (\A k \in 1..j : users[k].t = "object" /\ Prop(users[k], "id") # JUndef)
                     => /\ Number(Prop(users[j], "id")) \in DOMAIN e.post.reg
                        /\ e.post.room # JNull
                              => e.post.room \in
                                    e.post.reg[Number(Prop(users[j], "id"))].roomsVisited


---------------------------------------------------------------------------
(* Replay mode: timers and the order of rendering.                        *)

\* the records of the list are in the order of the replayed messages, each
\* once: the list is the first messages of replayMessages, or what is left
\* of an earlier pass after exitReplay has emptied replayMessages
RenderedInOrder ==
    \A i, j \in 1..Len(replay.rendered) :
        i < j => replay.rendered[i] # replay.rendered[j]

RenderedByTimestamp ==
    replay.active =>
        /\ Len(replay.rendered) <= Len(replay.messages)
        /\ \A i \in 1..Len(replay.rendered) :
               replay.rendered[i] = replay.messages[i].id
        /\ \A i, j \in 1..Len(replay.messages) :
               i < j => replay.messages[i].timestamp
                            <= replay.messages[j].timestamp

\* C39: in replay mode at most one replay timer is pending at any time,
\* each stored message is rendered at most once in a playback pass and in
\* non-decreasing timestamp order, under any interleaving of enterReplay
\* (a second call before the first has loaded included), play/pause, speed
\* change, slider grab/release and exit; and after exitReplay no timer
\* remains pending.
C39_OneTimerPending ==
    /\ Cardinality(replay.pending) <= 1
    /\ RenderedInOrder
    /\ RenderedByTimestamp
    /\ replay.op = "exitReplay" => replay.pending = {}

\* C39, the part that holds: whatever the interleaving, the list shows the
\* first messages of the pass in timestamp order, each once.
C39_RenderedOnceInOrder == RenderedInOrder /\ RenderedByTimestamp

\* C39, what the code keeps of the timers: replayTimer, when not null, is a
\* pending timer, and stopReplayPlayback and exitReplay clear that one.
C39_NamedTimerIsPending ==
    /\ replay.timer # 0 => replay.timer \in replay.pending
    /\ replay.op = "exitReplay" =>
           replay.timer = 0 /\ ~replay.active /\ ~replay.playing

\* C39, how a second timer comes about: only a function that calls
\* scheduleNextMessage without clearing replayTimer first adds a timer to a
\* pending one, and a timer that fires forgets the timer replayTimer names.
C39_SecondTimerOnlyByStart ==
    [][(replay.pending # {} /\ Cardinality(replay'.pending)
                                   > Cardinality(replay.pending))
          => replay'.op \in {"loaded", "toggleReplayPlayback",
                             "handleSliderRelease"}]_vars

===========================================================================
